---------------------------- MODULE Spec2Model ----------------------------
(***************************************************************************)
(* Model of the meal-rotation recipe manager: the extractor (scrapeRecipe) *)
(* and the /recipes routes over the record store.                          *)
(*                                                                         *)
(* Text is modelled as a sequence of tokens.  A token is one whitespace    *)
(* character (" ", "\t", "\n", "NBSP"), one HTML entity ("&nbsp;",         *)
(* "&amp;") or a maximal run of other characters ("Pie").                  *)
(***************************************************************************)
EXTENDS Integers, Sequences, FiniteSets, TLC

(***************************************************************************)
(* Bounds of the model.                                                    *)
(***************************************************************************)
MaxReqs == 3
MaxTextLen == 2
MaxBlocks == 3

\* The recipes the list of the web client shows.
MaxRecipes == 3

\* The most quantities written in one servings text.
MaxQuantities == 3

(***************************************************************************)
(* Optional and JSON values: a tagged union, k is the JavaScript type.     *)
(***************************************************************************)
Undef == [k |-> "undefined", v |-> <<>>]
JNull == [k |-> "null", v |-> <<>>]
JStr(t) == [k |-> "string", v |-> t]
JNum(n) == [k |-> "number", v |-> n]
JArr(s) == [k |-> "array", v |-> s]
JObj(f) == [k |-> "object", v |-> f]

IsDef(x) == x.k # "undefined"

\* obj[name] of a JavaScript object: undefined when the key is missing.
Field(obj, name) == IF name \in DOMAIN obj.v THEN obj.v[name] ELSE Undef

\* JavaScript truthiness of a JSON value (!value is its negation).
Truthy(x) ==
  CASE x.k = "undefined" -> FALSE
    [] x.k = "null" -> FALSE
    [] x.k = "string" -> x.v # <<>>
    [] x.k = "number" -> x.v # 0
    [] OTHER -> TRUE

(***************************************************************************)
(* normalizeText: he.decode, collapse whitespace runs, NBSP to space, trim *)
(***************************************************************************)
HeDecode(c) ==
  CASE c = "&nbsp;" -> "NBSP"
    [] c = "&amp;" -> "&"
    [] OTHER -> c

\* The characters JavaScript's \s matches (U+00A0 is one of them).
IsSpace(c) == c \in {" ", "\t", "\n", "\r", "NBSP"}

RECURSIVE CollapseSpaces(_)
CollapseSpaces(s) ==
  IF s = <<>> THEN <<>>
  ELSE IF IsSpace(Head(s))
       THEN IF Len(s) > 1 /\ IsSpace(s[2])
            THEN CollapseSpaces(Tail(s))
            ELSE <<" ">> \o CollapseSpaces(Tail(s))
       ELSE <<Head(s)>> \o CollapseSpaces(Tail(s))

ReplaceNbsp(s) == [i \in 1..Len(s) |-> IF s[i] = "NBSP" THEN " " ELSE s[i]]

RECURSIVE TrimStart(_)
TrimStart(s) ==
  IF s # <<>> /\ IsSpace(Head(s)) THEN TrimStart(Tail(s)) ELSE s

RECURSIVE TrimEnd(_)
TrimEnd(s) ==
  IF s # <<>> /\ IsSpace(s[Len(s)]) THEN TrimEnd(SubSeq(s, 1, Len(s) - 1)) ELSE s

Trim(s) == TrimEnd(TrimStart(s))

normalizeText(value) ==
  Trim(ReplaceNbsp(CollapseSpaces([i \in 1..Len(value) |-> HeDecode(value[i])])))

(***************************************************************************)
(* JSON-LD traversal                                                       *)
(***************************************************************************)
RECURSIVE FlatMapSeq(_, _)
RECURSIVE flattenJsonLd(_)
FlatMapSeq(s, i) ==
  IF i > Len(s) THEN <<>> ELSE flattenJsonLd(s[i]) \o FlatMapSeq(s, i + 1)

flattenJsonLd(json) ==
  IF ~Truthy(json) THEN <<>>
  ELSE IF json.k = "array" THEN FlatMapSeq(json.v, 1)
  ELSE IF json.k = "object"
       THEN IF Field(json, "@graph").k = "array"
            THEN flattenJsonLd(Field(json, "@graph"))
            ELSE <<json>>
       ELSE <<>>

\* String.prototype.toLowerCase on the type names the model uses.
ToLowerCase(tok) ==
  CASE tok \in {"Recipe", "RECIPE", "recipe"} -> "recipe"
    [] tok \in {"Article", "article"} -> "article"
    [] tok \in {"RecipePage", "recipepage"} -> "recipepage"
    [] OTHER -> tok

LowerText(t) == [i \in 1..Len(t) |-> ToLowerCase(t[i])]

\* isRecipeType taking any typed node for a recipe.
isRecipeTypeAny(typeValue) == typeValue.k \in {"string", "array"}

isRecipeType(typeValue) ==
  IF typeValue.k = "string" THEN LowerText(typeValue.v) = <<"recipe">>
  ELSE IF typeValue.k = "array"
       THEN \E i \in 1..Len(typeValue.v) :
              /\ typeValue.v[i].k = "string"
              /\ LowerText(typeValue.v[i].v) = <<"recipe">>
       ELSE FALSE

RECURSIVE FindRecipeNode(_, _)
FindRecipeNode(nodes, i) ==
  IF i > Len(nodes) THEN Undef
  ELSE IF nodes[i].k = "object" /\ isRecipeType(Field(nodes[i], "@type"))
       THEN nodes[i]
       ELSE FindRecipeNode(nodes, i + 1)

(***************************************************************************)
(* A linked-data script block: its text either parses as JSON or does not. *)
(***************************************************************************)
Malformed == [k |-> "malformed", v |-> <<>>]

\* The loop with JSON.parse outside any try: a malformed block ends it.
RECURSIVE CollectJsonNodesFatal(_, _)
CollectJsonNodesFatal(scripts, i) ==
  IF i > Len(scripts) \/ scripts[i].k = "malformed" THEN <<>>
  ELSE flattenJsonLd(scripts[i]) \o CollectJsonNodesFatal(scripts, i + 1)

\* The loop of scrapeRecipe over the script blocks: JSON.parse in try/catch.
RECURSIVE CollectJsonNodes(_, _)
CollectJsonNodes(scripts, i) ==
  IF i > Len(scripts) THEN <<>>
  ELSE (IF scripts[i].k = "malformed" THEN <<>> ELSE flattenJsonLd(scripts[i]))
         \o CollectJsonNodes(scripts, i + 1)

(***************************************************************************)
(* toStringArray                                                           *)
(***************************************************************************)
RECURSIVE NormalizedStrings(_, _)
NormalizedStrings(s, i) ==
  IF i > Len(s) THEN <<>>
  ELSE (IF s[i].k = "string" /\ normalizeText(s[i].v) # <<>>
        THEN <<normalizeText(s[i].v)>> ELSE <<>>)
         \o NormalizedStrings(s, i + 1)

toStringArray(value) ==
  IF value.k = "array"
  THEN LET out == NormalizedStrings(value.v, 1)
       IN IF Len(out) > 0 THEN JArr(out) ELSE Undef
  ELSE IF value.k = "string"
       THEN LET single == normalizeText(value.v)
            IN IF single # <<>> THEN JArr(<<single>>) ELSE Undef
       ELSE Undef

(***************************************************************************)
(* parseInstructions                                                       *)
(***************************************************************************)
\* Tokens the split pattern /\s*(?:\r?\n|\d+\.|BULLET)\s*/ matches.
IsStepSeparator(tok) == tok \in {"\n", "1.", "2.", "3.", "BULLET"}

\* String.prototype.split on the separator tokens: the pieces, in order.
RECURSIVE SplitSteps(_, _, _)
SplitSteps(s, i, cur) ==
  IF i > Len(s) THEN <<cur>>
  ELSE IF IsStepSeparator(s[i]) THEN <<cur>> \o SplitSteps(s, i + 1, <<>>)
       ELSE SplitSteps(s, i + 1, Append(cur, s[i]))

RECURSIVE NonEmptyNormalized(_, _)
NonEmptyNormalized(pieces, i) ==
  IF i > Len(pieces) THEN <<>>
  ELSE (IF normalizeText(pieces[i]) # <<>> THEN <<normalizeText(pieces[i])>> ELSE <<>>)
         \o NonEmptyNormalized(pieces, i + 1)

RECURSIVE parseInstructions(_)
RECURSIVE InstructionItems(_, _)
InstructionItems(s, i) ==
  IF i > Len(s) THEN <<>>
  ELSE LET item == s[i]
           here ==
             IF item.k = "string"
             THEN (IF normalizeText(item.v) # <<>> THEN <<normalizeText(item.v)>> ELSE <<>>)
             ELSE IF item.k = "object"
                  THEN IF Field(item, "text").k = "string"
                       THEN (IF normalizeText(Field(item, "text").v) # <<>>
                             THEN <<normalizeText(Field(item, "text").v)>> ELSE <<>>)
                       ELSE LET nested == parseInstructions(Field(item, "itemListElement"))
                            IN IF IsDef(nested) THEN nested.v ELSE <<>>
                  ELSE <<>>
       IN here \o InstructionItems(s, i + 1)

parseInstructions(value) ==
  IF ~Truthy(value) THEN Undef
  ELSE IF value.k = "string"
       THEN LET text == normalizeText(value.v)
                split == NonEmptyNormalized(SplitSteps(text, 1, <<>>), 1)
            IN IF Len(split) > 0 THEN JArr(split) ELSE JArr(<<text>>)
       ELSE IF value.k = "array"
            THEN LET out == InstructionItems(value.v, 1)
                 IN IF Len(out) > 0 THEN JArr(out) ELSE Undef
            ELSE Undef

(***************************************************************************)
(* URLs.  A URL text is a token sequence: a scheme token ("https://",      *)
(* "http://"), a host token and an optional path token ("/pie"); "//" is   *)
(* the protocol-relative prefix; "[" is a host the URL parser rejects.     *)
(***************************************************************************)
SchemeTokens == {"https://", "http://"}
IsHostToken(tok) == tok \notin SchemeTokens \cup {"//", "["} /\ ~IsSpace(tok)

\* new URL(text) succeeds (the parser strips leading and trailing spaces).
IsAbsoluteUrl(text) ==
  LET t == Trim(text)
  IN /\ Len(t) \in {2, 3}
     /\ t[1] \in SchemeTokens
     /\ IsHostToken(t[2])
     /\ Len(t) = 3 => (t[3] \notin SchemeTokens /\ ~IsSpace(t[3]))

\* URL.prototype.toString of a parsed absolute URL: an empty path reads "/".
UrlHref(text) == LET t == Trim(text) IN IF Len(t) = 2 THEN Append(t, "/") ELSE t

UrlHostname(text) == Trim(text)[2]

\* new URL(text, base).toString(), or Undef where the constructor throws:
\* a text with a scheme must parse on its own, any other text is a relative
\* reference and resolves against base (an absolute URL).
ResolveUrl(text, base) ==
  IF text[1] \in SchemeTokens
  THEN IF IsAbsoluteUrl(text) THEN JStr(UrlHref(text)) ELSE Undef
  ELSE JStr(<<base[1], base[2]>> \o text)

normalizeUrl(raw, base) ==
  IF raw.k # "string" THEN Undef
  ELSE LET trimmed == Trim(raw.v)
       IN IF trimmed = <<>> THEN Undef
          ELSE IF trimmed[1] = "//" THEN JStr(<<"https:">> \o trimmed)
          ELSE ResolveUrl(trimmed, base)

\* a || b for optional strings.
OrElse(a, b) == IF Truthy(a) THEN a ELSE b

RECURSIVE pickImageUrl(_, _)
RECURSIVE PickFirstImage(_, _, _)
PickFirstImage(items, i, base) ==
  IF i > Len(items) THEN Undef
  ELSE LET picked == pickImageUrl(items[i], base)
       IN IF Truthy(picked) THEN picked ELSE PickFirstImage(items, i + 1, base)

pickImageUrl(image, base) ==
  IF image.k = "string" THEN normalizeUrl(image, base)
  ELSE IF image.k = "array" THEN PickFirstImage(image.v, 1, base)
  ELSE IF image.k = "object"
       THEN OrElse(normalizeUrl(Field(image, "url"), base),
              OrElse(normalizeUrl(Field(image, "contentUrl"), base),
                     normalizeUrl(Field(image, "thumbnailUrl"), base)))
       ELSE Undef

\* metaImages: the six candidates in the order pickMetaImageUrl reads them.
RECURSIVE PickFirstMeta(_, _, _)
PickFirstMeta(candidates, i, base) ==
  IF i > Len(candidates) THEN Undef
  ELSE LET picked == normalizeUrl(candidates[i], base)
       IN IF Truthy(picked) THEN picked ELSE PickFirstMeta(candidates, i + 1, base)

pickMetaImageUrl(page, base) == PickFirstMeta(page.metaImages, 1, base)

(***************************************************************************)
(* Servings: toFirstString, normalizeFractions, parseFirstNumber.          *)
(* A run of digits is one token; "." and "/" are tokens of their own.      *)
(***************************************************************************)
DigitsValue ==
  [tok \in {"0", "1", "2", "3", "4", "5", "6", "8", "10", "12"} |->
     CASE tok = "0" -> 0 [] tok = "1" -> 1 [] tok = "2" -> 2 [] tok = "3" -> 3
       [] tok = "4" -> 4 [] tok = "5" -> 5 [] tok = "6" -> 6 [] tok = "8" -> 8
       [] tok = "10" -> 10 [] tok = "12" -> 12]

IsDigits(tok) == tok \in DOMAIN DigitsValue

\* 10 to the number of digits of a digit run (the weight of a decimal part).
DecimalScale(tok) == IF tok \in {"10", "12"} THEN 100 ELSE 10

UNICODE_FRACTIONS ==
  [g \in {"GLYPH_1_4", "GLYPH_1_2", "GLYPH_3_4", "GLYPH_1_3"} |->
     CASE g = "GLYPH_1_4" -> <<"1", "/", "4">>
       [] g = "GLYPH_1_2" -> <<"1", "/", "2">>
       [] g = "GLYPH_3_4" -> <<"3", "/", "4">>
       [] g = "GLYPH_1_3" -> <<"1", "/", "3">>]

RECURSIVE normalizeFractions(_)
normalizeFractions(text) ==
  IF text = <<>> THEN <<>>
  ELSE (IF Head(text) \in DOMAIN UNICODE_FRACTIONS
        THEN <<" ">> \o UNICODE_FRACTIONS[Head(text)] \o <<" ">>
        ELSE <<Head(text)>>) \o normalizeFractions(Tail(text))

RECURSIVE Gcd(_, _)
Gcd(a, b) == IF b = 0 THEN a ELSE Gcd(b, a % b)

\* The number n/d, in lowest terms.
Rat(n, d) == LET g == Gcd(n, d) IN [k |-> "number", v |-> <<n \div g, d \div g>>]

RECURSIVE SkipSpaces(_, _)
SkipSpaces(s, i) == IF i <= Len(s) /\ IsSpace(s[i]) THEN SkipSpaces(s, i + 1) ELSE i

DigitsAt(s, i) == i <= Len(s) /\ IsDigits(s[i])

\* /(\d+)\s*\/\s*(\d+)/ matched with its first group at token i.
FracAt(s, i) ==
  /\ DigitsAt(s, i)
  /\ LET k == SkipSpaces(s, i + 1)
     IN k <= Len(s) /\ s[k] = "/" /\ DigitsAt(s, SkipSpaces(s, k + 1))

FracNum(s, i) == DigitsValue[s[i]]
FracDen(s, i) == DigitsValue[s[SkipSpaces(s, SkipSpaces(s, i + 1) + 1)]]

\* /(\d+)\s+(\d+)\s*\/\s*(\d+)/ matched with its first group at token i.
MixedAt(s, i) ==
  /\ DigitsAt(s, i)
  /\ i + 1 <= Len(s) /\ IsSpace(s[i + 1])
  /\ FracAt(s, SkipSpaces(s, i + 1))

\* String.prototype.match: the leftmost of the positions that match, or 0.
FirstMatch(positions) ==
  IF positions = {} THEN 0
  ELSE CHOOSE i \in positions : \A j \in positions : i <= j

parseFirstNumber(text) ==
  LET s == normalizeFractions(text)
      m == FirstMatch({i \in 1..Len(s) : MixedAt(s, i)})
      f == FirstMatch({i \in 1..Len(s) : FracAt(s, i)})
      d == FirstMatch({i \in 1..Len(s) : DigitsAt(s, i)})
      mf == SkipSpaces(s, m + 1)
  IN IF m > 0 /\ FracDen(s, mf) # 0
     THEN Rat(DigitsValue[s[m]] * FracDen(s, mf) + FracNum(s, mf), FracDen(s, mf))
     ELSE IF f > 0 /\ FracDen(s, f) # 0
          THEN Rat(FracNum(s, f), FracDen(s, f))
          ELSE IF d > 0
               THEN IF d + 2 <= Len(s) /\ s[d + 1] = "." /\ IsDigits(s[d + 2])
                    THEN Rat(DigitsValue[s[d]] * DecimalScale(s[d + 2]) + DigitsValue[s[d + 2]],
                             DecimalScale(s[d + 2]))
                    ELSE Rat(DigitsValue[s[d]], 1)
               ELSE Undef

RECURSIVE toFirstString(_)
RECURSIVE FirstStringOf(_, _)
FirstStringOf(items, i) ==
  IF i > Len(items) THEN Undef
  ELSE LET str == toFirstString(items[i])
       IN IF Truthy(str) THEN str ELSE FirstStringOf(items, i + 1)

toFirstString(value) ==
  IF ~Truthy(value) THEN Undef
  ELSE IF value.k = "string" THEN value
  ELSE IF value.k = "number" THEN JStr(<<ToString(value.v)>>)
  ELSE IF value.k = "array" THEN FirstStringOf(value.v, 1)
  ELSE Undef

\* a ?? b
Coalesce(a, b) == IF a.k \in {"undefined", "null"} THEN b ELSE a

(***************************************************************************)
(* scrapeRecipe.  A response is a network failure or a status and a page;  *)
(* a page is [scripts, ogTitle, titleTag, metaImages].  The result is      *)
(* [k |-> "ok", v |-> ScrapedRecipe] or [k |-> "throw", v |-> message].    *)
(***************************************************************************)
\* res.ok taking every status from 200 up for a success.
ResponseOkFrom200(status) == status >= 200

ResponseOk(status) == status >= 200 /\ status <= 299

FetchFailedMessage(status) == <<"Fetch failed (", ToString(status), ")">>

titleFromHtml(page) ==
  normalizeText(OrElse(page.ogTitle,
                  OrElse(JStr(page.titleTag), JStr(<<"Untitled", " ", "recipe">>))).v)

ParseRecipePage(url, page) ==
  LET jsonNodes == CollectJsonNodes(page.scripts, 1)
      recipeNode == FindRecipeNode(jsonNodes, 1)
      name == Field(recipeNode, "name")
      desc == Field(recipeNode, "description")
      servingsRaw ==
        Coalesce(toFirstString(Field(recipeNode, "recipeYield")),
          Coalesce(toFirstString(Field(recipeNode, "yield")),
            Coalesce(toFirstString(Field(recipeNode, "recipeServings")),
                     toFirstString(Field(recipeNode, "servings")))))
      servingsText == IF Truthy(servingsRaw) THEN JStr(normalizeText(servingsRaw.v)) ELSE Undef
  IN IF ~IsDef(recipeNode)
     THEN [title |-> titleFromHtml(page),
           description |-> Undef,
           imageUrl |-> pickMetaImageUrl(page, url),
           servings |-> Undef,
           servingsText |-> Undef,
           ingredients |-> Undef,
           instructions |-> Undef,
           sourceHost |-> JStr(<<UrlHostname(url)>>)]
     ELSE [title |-> IF name.k = "string" THEN normalizeText(name.v) ELSE titleFromHtml(page),
           description |-> IF desc.k = "string" THEN JStr(normalizeText(desc.v)) ELSE Undef,
           imageUrl |-> Coalesce(pickImageUrl(Field(recipeNode, "image"), url),
                                 pickMetaImageUrl(page, url)),
           servings |-> IF Truthy(servingsText) THEN parseFirstNumber(servingsText.v) ELSE Undef,
           servingsText |-> servingsText,
           ingredients |-> toStringArray(Field(recipeNode, "recipeIngredient")),
           instructions |-> parseInstructions(Field(recipeNode, "recipeInstructions")),
           sourceHost |-> JStr(<<UrlHostname(url)>>)]

Thrown(message) == [k |-> "throw", v |-> message]
Returned(value) == [k |-> "ok", v |-> value]

scrapeRecipe(sourceUrl, response) ==
  IF ~IsAbsoluteUrl(sourceUrl) THEN Thrown(<<"Invalid URL">>)
  ELSE IF response.k = "network_error" THEN Thrown(<<"fetch failed">>)
  ELSE IF ~ResponseOk(response.status)
       THEN Thrown(FetchFailedMessage(response.status))
       ELSE Returned(ParseRecipePage(Trim(sourceUrl), response.page))

(***************************************************************************)
(* Inputs of the extractor                                                 *)
(***************************************************************************)
RECURSIVE TextsUpTo(_, _)
TextsUpTo(alphabet, n) ==
  IF n = 0 THEN {<<>>}
  ELSE LET shorter == TextsUpTo(alphabet, n - 1)
       IN shorter \cup {Append(t, c) : t \in shorter, c \in alphabet}

NameTexts == TextsUpTo({" ", "&nbsp;", "Pie"}, MaxTextLen)
HtmlTexts == TextsUpTo({" ", "Tart"}, MaxTextLen)

OptionalStrings(texts) == {Undef} \cup {JStr(t) : t \in texts}

EmptyPage == [scripts |-> <<>>, ogTitle |-> Undef, titleTag |-> <<>>,
              metaImages |-> <<Undef, Undef, Undef, Undef, Undef, Undef>>]

NetworkError == [k |-> "network_error", status |-> 0, page |-> EmptyPage]
HttpResponse(status, page) == [k |-> "http", status |-> status, page |-> page]

\* The fields of a recipe node other than its name.
RecipeBody ==
  [description |-> JStr(<<"Sweet", " ", "&amp;", "\n", "sour">>),
   recipeYield |-> JArr(<<JStr(<<"4", " ", "servings">>)>>),
   recipeIngredient |-> JArr(<<JStr(<<"2", " ", "apples">>), JStr(<<" ">>), JStr(<<"flour">>)>>),
   recipeInstructions |->
     JArr(<<JObj([text |-> JStr(<<"Peel">>)]),
            JObj([itemListElement |-> JArr(<<JObj([text |-> JStr(<<"Bake">>)])>>)])>>),
   image |-> JObj([url |-> JStr(<<"/img.jpg">>)])]

RecipeNode(type, name) ==
  JObj((IF IsDef(name) THEN [name |-> name] ELSE <<>>)
         @@ ("@type" :> type) @@ RecipeBody)

ArticleNode ==
  JObj("@type" :> JStr(<<"Article">>)
         @@ [name |-> JStr(<<"News">>), description |-> JStr(<<"Today">>)])

\* The linked-data blocks of a page, by layout.
NoRecipeLayouts == {"none", "malformed", "article", "null", "graph_article"}
RecipeLayouts == {"recipe", "graph", "malformed_then_recipe", "typed_list"}

Scripts(layout, name) ==
  CASE layout = "none" -> <<>>
    [] layout = "malformed" -> <<Malformed, Malformed>>
    [] layout = "article" -> <<ArticleNode, JStr(<<"Recipe">>)>>
    [] layout = "null" -> <<JNull, JArr(<<JNum(0), ArticleNode>>)>>
    [] layout = "graph_article" -> <<JObj("@graph" :> JArr(<<ArticleNode>>) @@ ("@type" :> JStr(<<"Recipe">>)))>>
    [] layout = "recipe" -> <<RecipeNode(JStr(<<"Recipe">>), name)>>
    [] layout = "graph" -> <<JObj("@graph" :> JArr(<<ArticleNode, RecipeNode(JStr(<<"recipe">>), name)>>))>>
    [] layout = "malformed_then_recipe" -> <<Malformed, JArr(<<RecipeNode(JStr(<<"RECIPE">>), name)>>)>>
    [] layout = "typed_list" ->
         <<RecipeNode(JArr(<<JStr(<<"Article">>), JStr(<<"Recipe">>)>>), name)>>

MetaImageChoices ==
  {<<Undef, Undef, Undef, Undef, Undef, Undef>>,
   <<Undef, JStr(<<"//", "cdn.test", "/og.jpg">>), Undef, Undef, Undef, Undef>>,
   <<JStr(<<" ">>), JStr(<<"https://">>), Undef, JStr(<<"/tw.jpg">>), Undef, Undef>>}

Page(layout, name, og, titleTag, meta) ==
  [scripts |-> Scripts(layout, name), ogTitle |-> og, titleTag |-> titleTag,
   metaImages |-> meta]

PageUrl == <<"https://", "a.test", "/pie">>

(***************************************************************************)
(* State                                                                   *)
(***************************************************************************)
VARIABLES
  recipes,    \* the Recipe table: a function from the ids of the rows to the rows
  nextId,     \* the next value of the SERIAL id sequence
  clock,      \* the time new Date() reads
  reqs,       \* the HTTP requests to /recipes being handled, by slot
  started,    \* how many requests have been received
  answered,   \* the request answered last and its response
  tasks,      \* the detached scrape started by the creation of each record
  scrapeIn,   \* the arguments of a call of scrapeRecipe on its own
  scrapeOut,  \* its result
  webIn,      \* a call of one of the quantity functions of the web client
  webOut,     \* its result
  multiplierByRecipeId,  \* App state: the multiplier typed for a recipe
  selectedId, \* App state: the id of the card clicked last, 0 for null
  selected,   \* App state: the id of the detail record shown, 0 for null
  loads,      \* the getRecipe calls of the selected-load effect in flight
  busy,       \* the re-scrape or save in flight
  nodeEnv,    \* process.env.NODE_ENV of the authenticated server
  users,      \* the ids of the rows of the User table
  dateNow,    \* the time Date.now() reads, in seconds
  gate        \* the request to /recipes passing attachSessionUser and requireAuth

vars == <<recipes, nextId, clock, reqs, started, answered, tasks, scrapeIn, scrapeOut,
          webIn, webOut, multiplierByRecipeId, selectedId, selected, loads, busy,
          nodeEnv, users, dateNow, gate>>
serverVars == <<recipes, nextId, clock, reqs, started, answered, tasks>>
scrapeVars == <<scrapeIn, scrapeOut>>
appVars == <<multiplierByRecipeId, selectedId, selected, loads, busy>>
authVars == <<nodeEnv, users, dateNow, gate>>
webVars == <<webIn, webOut, appVars, authVars>>

Slots == 1..MaxReqs

NoResult == [k |-> "none", v |-> <<>>]
NoResponse == [status |-> 0, id |-> 0, alreadyExists |-> FALSE, error |-> <<>>]
NoBody == [sourceUrl |-> Undef, title |-> Undef]

\* fetched: the status of the response the scrape got (0: the fetch itself
\* failed), NotFetched before there is one.
NotFetched == -1

IdleReq == [op |-> "idle", pc |-> "idle", id |-> 0, body |-> NoBody,
            sourceUrl |-> <<>>, fetched |-> NotFetched, scraped |-> NoResult]

\* res.status(status).json(...)
JsonResponse(status, id, alreadyExists) ==
  [status |-> status, id |-> id, alreadyExists |-> alreadyExists, error |-> <<>>]

\* errorHandler: an HttpError keeps its status, any other error is a 500.
ErrorResponse(status, message) ==
  [status |-> status, id |-> 0, alreadyExists |-> FALSE, error |-> message]

NoAnswer == [op |-> "idle", id |-> 0, body |-> NoBody, resp |-> NoResponse]

\* Request r of slot r is received: the slots are interchangeable, so the
\* lowest free one takes it.
Receive(r) ==
  /\ started < MaxReqs
  /\ reqs[r].op = "idle" /\ \A q \in 1..(r - 1) : reqs[q].op # "idle"
  /\ started' = started + 1

\* The handler of slot r sends resp and ends; req is the request it handled.
Respond(r, req, resp) ==
  /\ reqs' = [reqs EXCEPT ![r] = IdleReq]
  /\ answered' = [op |-> req.op, id |-> req.id, body |-> req.body, resp |-> resp]

\* The handler of slot r goes on as req.
Continue(r, req) ==
  /\ reqs' = [reqs EXCEPT ![r] = req]
  /\ UNCHANGED answered

(***************************************************************************)
(* The storage collaborator (Prisma over the Recipe table)                 *)
(***************************************************************************)
Exists(id) == id \in DOMAIN recipes

\* prisma.recipe.findUnique({ where: { sourceUrl } }): the ids it finds.
IdsWithUrl(sourceUrl) == {i \in DOMAIN recipes : recipes[i].sourceUrl = sourceUrl}

\* The table without the unique index.
NoUniqueIndex(sourceUrl) == TRUE

\* The unique index Recipe_sourceUrl_key admits a new row with this sourceUrl.
UniqueIndexAllows(sourceUrl) == IdsWithUrl(sourceUrl) = {}

\* The row after prisma.recipe.update: a field whose datum is undefined is
\* left alone, any other datum (null included) is written.
Patched(row, data) ==
  [f \in DOMAIN row |->
     IF f \in DOMAIN data /\ IsDef(data[f]) THEN data[f] ELSE row[f]]

Updated(id, data) == [recipes EXCEPT ![id] = Patched(recipes[id], data)]

RecordNotFound == <<"Record to update not found.">>
UniqueViolation == <<"Unique constraint failed on the fields: sourceUrl">>

\* Number.parseInt(req.params.id, 10): not an integer for a non-numeric text.
IdParams == {[numeric |-> FALSE, n |-> 0]} \cup {[numeric |-> TRUE, n |-> i] : i \in Slots}

Status(name) == [k |-> "enum", v |-> name]

\* ScrapedData writing null for every field the scrape result lacks.
ScrapedDataClearing(title, scraped, now) ==
  [title |-> title,
   description |-> Coalesce(scraped.description, JNull),
   imageUrl |-> Coalesce(scraped.imageUrl, JNull),
   ingredients |-> Coalesce(scraped.ingredients, JNull),
   instructions |-> Coalesce(scraped.instructions, JNull),
   sourceHost |-> scraped.sourceHost,
   scrapeStatus |-> Status("ok"),
   scrapeError |-> JNull,
   lastScrapedAt |-> JNum(now)]

\* The data of the update after a scrape that returned (recipes.ts 72-82,
\* 186-196); title is body.title ?? scraped.title at creation.
ScrapedData(title, scraped, now) ==
  [title |-> title,
   description |-> scraped.description,
   imageUrl |-> scraped.imageUrl,
   ingredients |-> Coalesce(scraped.ingredients, Undef),
   instructions |-> Coalesce(scraped.instructions, Undef),
   sourceHost |-> scraped.sourceHost,
   scrapeStatus |-> Status("ok"),
   scrapeError |-> JNull,
   lastScrapedAt |-> JNum(now)]

\* FailureData as a destructive overwrite: the scraped fields are cleared.
FailureDataClearing(message, now) ==
  [description |-> JNull,
   ingredients |-> JNull,
   instructions |-> JNull,
   scrapeStatus |-> Status("error"),
   scrapeError |-> JStr(message),
   lastScrapedAt |-> JNum(now)]

\* FailureData that also resets what the user edited.
FailureDataResetsEdits(message, now) ==
  [scrapeStatus |-> Status("error"),
   scrapeError |-> JStr(message),
   lastScrapedAt |-> JNum(now),
   notes |-> JNull,
   tags |-> JNull]

\* The data of the update in the catch blocks (recipes.ts 88-92, 204-208).
FailureData(message, now) ==
  [scrapeStatus |-> Status("error"),
   scrapeError |-> JStr(message),
   lastScrapedAt |-> JNum(now)]

\* PendingData without scrapeError: the re-scrape keeps the old message.
PendingDataKeepsError == [scrapeStatus |-> Status("pending")]

\* The data of the update that starts a re-scrape (recipes.ts 177-180).
PendingData == [scrapeStatus |-> Status("pending"), scrapeError |-> JNull]

\* The row prisma.recipe.create inserts (recipes.ts 56-64).
NewRecipe(body) ==
  [title |-> Coalesce(body.title, JStr(<<UrlHostname(body.sourceUrl.v)>>)),
   sourceUrl |-> body.sourceUrl,
   sourceHost |-> JStr(<<UrlHostname(body.sourceUrl.v)>>),
   imageUrl |-> JNull,
   description |-> JNull,
   ingredients |-> JNull,
   instructions |-> JNull,
   scrapeStatus |-> Status("pending"),
   scrapeError |-> JNull,
   lastScrapedAt |-> JNull,
   notes |-> JNull,
   tags |-> JNull]

(***************************************************************************)
(* Request bodies and what the network can answer                          *)
(***************************************************************************)
\* z.string().trim().min(1).max(180).optional(): the parsed value.
TitleAccepted(title) ==
  title.k = "undefined" \/ (title.k = "string" /\ Trim(title.v) # <<>>)

\* createSchema with sourceUrl: z.string().trim(), any string.
createSchemaAcceptsAnyString(body) ==
  /\ body.sourceUrl.k = "string"
  /\ TitleAccepted(body.title)

\* createSchema.parse: sourceUrl is z.string().trim().url().
createSchemaAccepts(body) ==
  /\ body.sourceUrl.k = "string"
  /\ IsAbsoluteUrl(Trim(body.sourceUrl.v))
  /\ TitleAccepted(body.title)

TrimmedOptional(x) == IF x.k = "string" THEN JStr(Trim(x.v)) ELSE x

createSchemaParse(body) ==
  [sourceUrl |-> JStr(Trim(body.sourceUrl.v)), title |-> TrimmedOptional(body.title)]

UrlA == <<"https://", "a.test", "/pie">>
UrlB == <<"http://", "b.test">>

\* The bodies submitted: malformed ones, the same page twice (once padded),
\* and another page under a title of the user's.
CreateBodies ==
  {[sourceUrl |-> Undef, title |-> Undef],
   [sourceUrl |-> JStr(<<"not-a-url">>), title |-> Undef],
   [sourceUrl |-> JStr(<<"https://">>), title |-> JStr(<<"Mine">>)],
   [sourceUrl |-> JStr(<<" ">>), title |-> Undef],
   [sourceUrl |-> JStr(UrlA), title |-> JStr(<<" ">>)],
   [sourceUrl |-> JStr(UrlA), title |-> Undef],
   [sourceUrl |-> JStr(<<" ", "https://", "a.test", "/pie", " ">>), title |-> Undef],
   [sourceUrl |-> JStr(UrlB), title |-> JStr(<<" ", "Mine">>)]}

FullPage ==
  Page("graph", JStr(<<"Apple", " ", "&amp;", " ", "Pie">>), Undef, <<"Tart">>,
       <<Undef, Undef, Undef, Undef, Undef, Undef>>)

BarePage ==
  Page("article", Undef, JStr(<<"Tart">>), <<>>,
       <<Undef, JStr(<<"//", "cdn.test", "/og.jpg">>), Undef, Undef, Undef, Undef>>)

\* What a fetch of sourceUrl can be answered: a.test serves the recipe, an
\* article or a 404, b.test serves the recipe or is unreachable.
Responses(sourceUrl) ==
  IF UrlHostname(sourceUrl) = "a.test"
  THEN {HttpResponse(404, EmptyPage), HttpResponse(200, FullPage), HttpResponse(200, BarePage)}
  ELSE {NetworkError, HttpResponse(200, FullPage)}

(***************************************************************************)
(* POST /recipes (recipes.ts 43-99)                                        *)
(***************************************************************************)
\* Lines 46-52: parse the body, then findUnique by sourceUrl.
CreateSubmit(r, body) ==
  /\ Receive(r)
  /\ LET start == [IdleReq EXCEPT !.op = "create", !.body = body]
     IN IF ~createSchemaAccepts(body)
        THEN Respond(r, start, ErrorResponse(500, <<"ZodError">>))
        ELSE LET parsed == createSchemaParse(body)
                 existing == IdsWithUrl(parsed.sourceUrl)
             IN IF existing # {}
                THEN Respond(r, start, JsonResponse(200, CHOOSE i \in existing : TRUE, TRUE))
                ELSE Continue(r, [start EXCEPT !.pc = "create", !.body = parsed])
  /\ UNCHANGED <<recipes, nextId, clock, tasks, scrapeVars, webVars>>

\* Lines 54-97: new URL, prisma.recipe.create, start the detached scrape
\* and answer 201.  The id sequence advances even when the insert fails on
\* the unique index.
CreateInsert(r) ==
  /\ reqs[r].op = "create" /\ reqs[r].pc = "create"
  /\ LET body == reqs[r].body
     IN IF ~IsAbsoluteUrl(body.sourceUrl.v)
        THEN /\ Respond(r, reqs[r], ErrorResponse(500, <<"Invalid URL">>))
             /\ UNCHANGED <<recipes, nextId, tasks>>
        ELSE IF ~UniqueIndexAllows(body.sourceUrl)
        THEN /\ Respond(r, reqs[r], ErrorResponse(500, UniqueViolation))
             /\ nextId' = nextId + 1
             /\ UNCHANGED <<recipes, tasks>>
        ELSE /\ recipes' = recipes @@ (nextId :> NewRecipe(body))
             /\ tasks' = tasks @@ (nextId :> [pc |-> "scrape", body |-> body,
                                                fetched |-> NotFetched, scraped |-> NoResult])
             /\ nextId' = nextId + 1
             /\ Respond(r, [reqs[r] EXCEPT !.id = nextId], JsonResponse(201, nextId, FALSE))
  /\ UNCHANGED <<clock, started, scrapeVars, webVars>>

\* Line 69: scrapeRecipe settles in the detached task.
TaskSettles(id) ==
  /\ id \in DOMAIN tasks /\ tasks[id].pc = "scrape"
  /\ \E response \in Responses(tasks[id].body.sourceUrl.v) :
       LET scraped == scrapeRecipe(tasks[id].body.sourceUrl.v, response)
       IN tasks' = [tasks EXCEPT ![id].scraped = scraped,
                                 ![id].fetched = response.status,
                                 ![id].pc = IF scraped.k = "ok" THEN "update" ELSE "catch"]
  /\ UNCHANGED <<recipes, nextId, clock, reqs, started, answered, scrapeVars, webVars>>

\* The detached task ends.
TaskEnds(id, pc) ==
  tasks' = [tasks EXCEPT ![id].pc = pc, ![id].scraped = NoResult, ![id].fetched = NotFetched]

\* TaskUpdate with an upsert in place of the update: a missing row is
\* inserted again.
TaskUpdateUpserts(id) ==
  /\ id \in DOMAIN tasks /\ tasks[id].pc = "update"
  /\ LET data == ScrapedData(
                   Coalesce(tasks[id].body.title, JStr(tasks[id].scraped.v.title)),
                   tasks[id].scraped.v, clock)
     IN recipes' = IF Exists(id) THEN Updated(id, data)
                   ELSE recipes @@ (id :> Patched(NewRecipe(tasks[id].body), data))
  /\ clock' = clock + 1
  /\ TaskEnds(id, "done")
  /\ UNCHANGED <<nextId, reqs, started, answered, scrapeVars, webVars>>

\* Lines 70-83: the update of the try block; when it throws, the catch
\* block runs with its error.
TaskUpdate(id) ==
  /\ id \in DOMAIN tasks /\ tasks[id].pc = "update"
  /\ IF Exists(id)
     THEN /\ recipes' = Updated(id, ScrapedData(
                 Coalesce(tasks[id].body.title, JStr(tasks[id].scraped.v.title)),
                 tasks[id].scraped.v, clock))
          /\ clock' = clock + 1
          /\ TaskEnds(id, "done")
     ELSE /\ tasks' = [tasks EXCEPT ![id].pc = "catch", ![id].scraped = Thrown(RecordNotFound)]
          /\ UNCHANGED <<recipes, clock>>
  /\ UNCHANGED <<nextId, reqs, started, answered, scrapeVars, webVars>>

\* TaskCatch with an empty catch block: the failure is swallowed.
TaskCatchSwallows(id) ==
  /\ id \in DOMAIN tasks /\ tasks[id].pc = "catch"
  /\ TaskEnds(id, "done")
  /\ UNCHANGED <<recipes, clock, nextId, reqs, started, answered, scrapeVars, webVars>>

\* Lines 84-94: the update of the catch block; when it throws, the detached
\* promise rejects with nobody to handle it.
TaskCatch(id) ==
  /\ id \in DOMAIN tasks /\ tasks[id].pc = "catch"
  /\ IF Exists(id)
     THEN /\ recipes' = Updated(id, FailureData(tasks[id].scraped.v, clock))
          /\ clock' = clock + 1
          /\ TaskEnds(id, "done")
     ELSE /\ TaskEnds(id, "rejected")
          /\ UNCHANGED <<recipes, clock>>
  /\ UNCHANGED <<nextId, reqs, started, answered, scrapeVars, webVars>>

(***************************************************************************)
(* POST /recipes/:id/rescrape (recipes.ts 164-214)                         *)
(***************************************************************************)
\* Lines 167-175: parse the id, then findUnique.
RescrapeStart(r, param) ==
  /\ Receive(r)
  /\ LET start == [IdleReq EXCEPT !.op = "rescrape", !.id = param.n]
     IN IF ~param.numeric THEN Respond(r, start, ErrorResponse(400, <<"Invalid id">>))
        ELSE IF ~Exists(param.n)
             THEN Respond(r, start, ErrorResponse(404, <<"Recipe not found">>))
             ELSE Continue(r, [start EXCEPT !.pc = "mark",
                                            !.sourceUrl = recipes[param.n].sourceUrl.v])
  /\ UNCHANGED <<recipes, nextId, clock, tasks, scrapeVars, webVars>>

\* Lines 177-180: scrapeStatus back to pending; outside the try block.
RescrapeMarkPending(r) ==
  /\ reqs[r].op = "rescrape" /\ reqs[r].pc = "mark"
  /\ IF Exists(reqs[r].id)
     THEN /\ recipes' = Updated(reqs[r].id, PendingData)
          /\ Continue(r, [reqs[r] EXCEPT !.pc = "scrape"])
     ELSE /\ Respond(r, reqs[r], ErrorResponse(500, RecordNotFound))
          /\ UNCHANGED recipes
  /\ UNCHANGED <<nextId, clock, started, tasks, scrapeVars, webVars>>

\* Line 183: scrapeRecipe settles.
RescrapeSettles(r) ==
  /\ reqs[r].op = "rescrape" /\ reqs[r].pc = "scrape"
  /\ \E response \in Responses(reqs[r].sourceUrl) :
       LET scraped == scrapeRecipe(reqs[r].sourceUrl, response)
       IN Continue(r, [reqs[r] EXCEPT !.scraped = scraped,
                                      !.fetched = response.status,
                                      !.pc = IF scraped.k = "ok" THEN "update" ELSE "catch"])
  /\ UNCHANGED <<recipes, nextId, clock, started, tasks, scrapeVars, webVars>>

\* Lines 184-199.
RescrapeUpdate(r) ==
  /\ reqs[r].op = "rescrape" /\ reqs[r].pc = "update"
  /\ IF Exists(reqs[r].id)
     THEN /\ recipes' = Updated(reqs[r].id,
                 ScrapedData(JStr(reqs[r].scraped.v.title), reqs[r].scraped.v, clock))
          /\ clock' = clock + 1
          /\ Respond(r, reqs[r], JsonResponse(200, reqs[r].id, FALSE))
     ELSE /\ Continue(r, [reqs[r] EXCEPT !.pc = "catch", !.scraped = Thrown(RecordNotFound)])
          /\ UNCHANGED <<recipes, clock>>
  /\ UNCHANGED <<nextId, started, tasks, scrapeVars, webVars>>

\* Lines 200-212.
RescrapeCatch(r) ==
  /\ reqs[r].op = "rescrape" /\ reqs[r].pc = "catch"
  /\ IF Exists(reqs[r].id)
     THEN /\ recipes' = Updated(reqs[r].id, FailureData(reqs[r].scraped.v, clock))
          /\ clock' = clock + 1
          /\ Respond(r, reqs[r], JsonResponse(200, reqs[r].id, FALSE))
     ELSE /\ Respond(r, reqs[r], ErrorResponse(500, RecordNotFound))
          /\ UNCHANGED <<recipes, clock>>
  /\ UNCHANGED <<nextId, started, tasks, scrapeVars, webVars>>

(***************************************************************************)
(* PUT /recipes/:id (recipes.ts 118-141) and DELETE /recipes/:id (143-162) *)
(***************************************************************************)
\* updateSchema.parse: notes is trimmed, null is kept.
updateSchemaAccepts(patch) ==
  /\ TitleAccepted(patch.title)
  /\ patch.notes.k \in {"undefined", "null", "string"}
  /\ patch.tags.k \in {"undefined", "null", "array"}

\* Lines 130-136: title only when truthy, notes and tags unless undefined.
UpdateData(patch) ==
  [title |-> IF Truthy(TrimmedOptional(patch.title)) THEN TrimmedOptional(patch.title) ELSE Undef,
   notes |-> TrimmedOptional(patch.notes),
   tags |-> patch.tags]

Patches ==
  {[title |-> JStr(<<"Edited">>), notes |-> JStr(<<" ", "tasty">>), tags |-> JArr(<<<<"veg">>>>)],
   [title |-> JStr(<<" ">>), notes |-> JNull, tags |-> JNull]}

PutUpdate(r, param, patch) ==
  /\ Receive(r)
  /\ LET start == [IdleReq EXCEPT !.op = "put", !.id = param.n]
     IN IF ~param.numeric
        THEN /\ Respond(r, start, ErrorResponse(400, <<"Invalid id">>))
             /\ UNCHANGED recipes
        ELSE IF ~updateSchemaAccepts(patch)
        THEN /\ Respond(r, start, ErrorResponse(500, <<"ZodError">>))
             /\ UNCHANGED recipes
        ELSE IF ~Exists(param.n)
        THEN /\ Respond(r, start, ErrorResponse(500, RecordNotFound))
             /\ UNCHANGED recipes
        ELSE /\ recipes' = Updated(param.n, UpdateData(patch))
             /\ Respond(r, start, JsonResponse(200, param.n, FALSE))
  /\ UNCHANGED <<nextId, clock, tasks, scrapeVars, webVars>>

Delete(r, param) ==
  /\ Receive(r)
  /\ LET start == [IdleReq EXCEPT !.op = "delete", !.id = param.n]
     IN IF ~param.numeric
        THEN /\ Respond(r, start, ErrorResponse(400, <<"Invalid id">>))
             /\ UNCHANGED recipes
        ELSE IF ~Exists(param.n)
        THEN /\ Respond(r, start, ErrorResponse(404, <<"Recipe not found">>))
             /\ UNCHANGED recipes
        ELSE /\ recipes' = [i \in DOMAIN recipes \ {param.n} |-> recipes[i]]
             /\ Respond(r, start, JsonResponse(200, param.n, FALSE))
  /\ UNCHANGED <<nextId, clock, tasks, scrapeVars, webVars>>

(***************************************************************************)
(* The server                                                              *)
(***************************************************************************)
IdleScrape == [k |-> "idle", v |-> <<>>]

\* No function of the web client is being called.
NoCall == [fn |-> "none"]
NotBusy == [op |-> "none", id |-> 0, pc |-> "idle"]

\* The App after it is mounted: no multiplier typed, no card clicked.
AppInit ==
  /\ multiplierByRecipeId = <<>>
  /\ selectedId = 0
  /\ selected = 0
  /\ loads = {}
  /\ busy = NotBusy

\* No request is at the session gate; the server runs in production with
\* the accounts registered before.
NoGate == [pc |-> "idle", token |-> <<>>, at |-> 0, session |-> 0, userId |-> 0,
           status |-> 0, started |-> 0]

AuthInit ==
  /\ nodeEnv = "production"
  /\ users = {1}
  /\ dateNow = 0
  /\ gate = NoGate

ClientIdle == webIn = NoCall /\ webOut = IdleScrape /\ AppInit /\ AuthInit

ServerInit ==
  /\ recipes = <<>>
  /\ nextId = 1
  /\ clock = 1
  /\ reqs = [r \in Slots |-> IdleReq]
  /\ started = 0
  /\ answered = NoAnswer
  /\ tasks = <<>>

Init ==
  /\ ServerInit
  /\ ClientIdle
  /\ scrapeIn = [sourceUrl |-> PageUrl, response |-> NetworkError]
  /\ scrapeOut = IdleScrape

Next ==
  \/ \E r \in Slots, body \in CreateBodies : CreateSubmit(r, body)
  \/ \E r \in Slots : CreateInsert(r)
  \/ \E id \in DOMAIN tasks : TaskSettles(id)
  \/ \E id \in DOMAIN tasks : TaskUpdate(id)
  \/ \E id \in DOMAIN tasks : TaskCatch(id)
  \/ \E r \in Slots, param \in IdParams : RescrapeStart(r, param)
  \/ \E r \in Slots : RescrapeMarkPending(r)
  \/ \E r \in Slots : RescrapeSettles(r)
  \/ \E r \in Slots : RescrapeUpdate(r)
  \/ \E r \in Slots : RescrapeCatch(r)
  \/ \E r \in Slots, param \in IdParams, patch \in Patches : PutUpdate(r, param, patch)
  \/ \E r \in Slots, param \in IdParams : Delete(r, param)

Spec == Init /\ [][Next]_vars

(***************************************************************************)
(* scrapeRecipe on its own: one call on each input                         *)
(***************************************************************************)
Pages ==
  {Page(layout, name, og, titleTag, meta) :
     layout \in NoRecipeLayouts \cup RecipeLayouts,
     name \in OptionalStrings(NameTexts),
     og \in OptionalStrings(HtmlTexts),
     titleTag \in HtmlTexts,
     meta \in MetaImageChoices}

ScrapeInputs ==
  [sourceUrl : {PageUrl}, response : {HttpResponse(200, page) : page \in Pages}]
    \cup [sourceUrl : {PageUrl, UrlB},
          response : {NetworkError}
                       \cup {HttpResponse(status, FullPage) :
                               status \in {199, 201, 299, 300, 304, 404, 500}}]

ScrapeInit ==
  /\ ServerInit
  /\ ClientIdle
  /\ scrapeIn \in ScrapeInputs
  /\ scrapeOut = IdleScrape

ScrapeCall ==
  /\ scrapeOut = IdleScrape
  /\ scrapeOut' = scrapeRecipe(scrapeIn.sourceUrl, scrapeIn.response)
  /\ UNCHANGED <<serverVars, scrapeIn, webVars>>

ScrapeNext == ScrapeCall

ScrapeSpec == ScrapeInit /\ [][ScrapeNext]_vars

(***************************************************************************)
(* Properties                                                              *)
(***************************************************************************)
Ids == 1..MaxReqs

StatusOf(table, id) == table[id].scrapeStatus.v

\* Slot r takes a step of the handler it runs.
Steps(r) == reqs[r].op # "idle" /\ reqs'[r] # reqs[r]

\* A request is received in this step.
Received == started' = started + 1

\* C1: a record is created pending, and every later change of its
\* scrapeStatus is pending->ok, pending->error, ok->pending or error->pending.
C1_StatusLifecycle ==
  [][\A id \in DOMAIN recipes' :
       IF id \in DOMAIN recipes
       THEN \/ StatusOf(recipes', id) = StatusOf(recipes, id)
            \/ <<StatusOf(recipes, id), StatusOf(recipes', id)>> \in
                 {<<"pending", "ok">>, <<"pending", "error">>,
                  <<"ok", "pending">>, <<"error", "pending">>}
       ELSE StatusOf(recipes', id) = "pending"]_vars

\* The calls of scrapeRecipe pending for record id: the one of the detached
\* task of its creation and those of re-scrape requests.
ExtractionsInFlight(id) ==
  (IF id \in DOMAIN tasks /\ tasks[id].pc = "scrape" THEN 1 ELSE 0)
    + Cardinality({r \in Slots : reqs[r].op = "rescrape" /\ reqs[r].id = id
                                   /\ reqs[r].pc = "scrape"})

\* C3: at every moment at most one extraction is in flight for a record id.
C3_AtMostOneExtraction == \A id \in Ids : ExtractionsInFlight(id) <= 1

\* The fields of a row a failing re-scrape may write.
AttemptFields == {"scrapeStatus", "scrapeError", "lastScrapedAt"}

SameExcept(fields, old, new) == \A f \in DOMAIN old \ fields : new[f] = old[f]

\* Slot r runs the update of the catch block of a re-scrape whose
\* extraction failed, on a record that exists.
RescrapeFails(r) ==
  /\ Steps(r)
  /\ reqs[r].op = "rescrape" /\ reqs[r].pc = "catch"
  /\ reqs[r].fetched # NotFetched /\ ~ResponseOk(reqs[r].fetched)
  /\ Exists(reqs[r].id)

TaskStep(id) == TaskSettles(id) \/ TaskUpdate(id) \/ TaskCatch(id)

HandlerStep(r) ==
  \/ CreateInsert(r)
  \/ RescrapeMarkPending(r)
  \/ RescrapeSettles(r)
  \/ RescrapeUpdate(r)
  \/ RescrapeCatch(r)

LiveSpec ==
  /\ Init
  /\ [][Next]_vars
  /\ \A id \in Ids : WF_vars(TaskStep(id))
  /\ \A r \in Slots : WF_vars(HandlerStep(r))

TaskOver(id) == id \in DOMAIN tasks /\ tasks[id].pc \in {"done", "rejected"}

\* C4: the detached extraction of every created record finishes, and when
\* it finishes on a record that still exists it has written ok (the scrape
\* returned) or error (it threw); a pending record does not stay pending.
C4_OutcomeReachesUpdate ==
  /\ \A id \in Ids : (id \in DOMAIN tasks) ~> TaskOver(id)
  /\ \A id \in Ids :
       (Exists(id) /\ StatusOf(recipes, id) = "pending")
         ~> (~Exists(id) \/ StatusOf(recipes, id) \in {"ok", "error"})
  /\ [][\A id \in DOMAIN tasks :
          (~TaskOver(id) /\ TaskOver(id)') =>
            IF Exists(id)
            THEN /\ tasks'[id].pc = "done"
                 /\ StatusOf(recipes', id) =
                      (IF tasks[id].scraped.k = "ok" THEN "ok" ELSE "error")
            ELSE tasks'[id].pc = "rejected"]_vars

\* Only the creation was received, and its detached extraction has ended
\* in error on the record.
C4_Witness ==
  /\ started = 1
  /\ \E id \in DOMAIN tasks :
       /\ tasks[id].pc = "done"
       /\ Exists(id)
       /\ StatusOf(recipes, id) = "error"

\* C5: no two records have the same sourceUrl; a record and the detached
\* extraction of its creation come into being together, one for one; and a
\* submission of a sourceUrl that is stored is answered 200 with the id of
\* the record that has it, creating nothing.
C5_OneRecordPerUrl ==
  [][/\ \A i, j \in DOMAIN recipes' :
          recipes'[i].sourceUrl = recipes'[j].sourceUrl => i = j
     /\ DOMAIN tasks' \ DOMAIN tasks = DOMAIN recipes' \ DOMAIN recipes
     /\ Cardinality(DOMAIN tasks' \ DOMAIN tasks) <= 1
     /\ \A id \in DOMAIN recipes' : tasks'[id].body.sourceUrl = recipes'[id].sourceUrl
     /\ \A r \in Slots :
          (Received /\ reqs[r].op = "idle" /\ reqs'[r].op = "create") =>
            IdsWithUrl(reqs'[r].body.sourceUrl) = {}
     /\ (Received /\ answered'.op = "create" /\ reqs' = reqs
          /\ answered'.body.sourceUrl.k = "string"
          /\ IdsWithUrl(JStr(Trim(answered'.body.sourceUrl.v))) # {}
          /\ TitleAccepted(answered'.body.title)) =>
            /\ answered'.resp.status = 200
            /\ answered'.resp.alreadyExists
            /\ answered'.resp.id \in IdsWithUrl(JStr(Trim(answered'.body.sourceUrl.v)))
            /\ recipes' = recipes /\ tasks' = tasks /\ nextId' = nextId]_vars

\* Two submissions of one sourceUrl raced: one created the record, the
\* other was refused by the unique index.
C5_Witness ==
  /\ answered.op = "create"
  /\ answered.resp.error = UniqueViolation
  /\ IdsWithUrl(answered.body.sourceUrl) # {}

\* C6: a record that has been deleted does not exist again, and a step of
\* a detached extraction or of a re-scrape whose record is deleted writes
\* no record.
C6_DeletionIsTerminal ==
  [][/\ \A id \in 1..(nextId - 1) : ~Exists(id) => ~(id \in DOMAIN recipes')
     /\ \A id \in DOMAIN tasks :
          (tasks'[id] # tasks[id] /\ ~Exists(id)) => recipes' = recipes
     /\ \A r \in Slots :
          (Steps(r) /\ reqs[r].op = "rescrape" /\ ~Exists(reqs[r].id)) =>
            recipes' = recipes]_vars

\* A record was deleted while its detached extraction was in flight or
\* after a re-scrape had read it, and the extraction has since ended.
C6_Witness ==
  \/ \E id \in DOMAIN tasks : ~Exists(id) /\ tasks[id].pc = "rejected"
  \/ /\ answered.op = "rescrape"
     /\ answered.resp.error = RecordNotFound
     /\ ~Exists(answered.id)

NonOkStatuses == {199, 300, 304, 404, 500}

\* A process (detached extraction or re-scrape) whose fetch was answered
\* with a status outside 200..299 is in its catch block with the error
\* "Fetch failed (status)".
CaughtFetchFailure(proc) ==
  (proc.fetched > 0 /\ ~(proc.fetched >= 200 /\ proc.fetched <= 299)) =>
    /\ proc.pc = "catch"
    /\ proc.scraped = Thrown(FetchFailedMessage(proc.fetched))

\* C7: on a status outside 200..299 scrapeRecipe throws "Fetch failed
\* (status)" and returns nothing; the detached extraction and the re-scrape
\* go to their catch block with that error, and the catch block stores
\* scrapeStatus error and the message of the error as scrapeError.
C7_FetchFailureIsStored ==
  [][/\ \A status \in NonOkStatuses, url \in {UrlA, UrlB} :
          scrapeRecipe(url, HttpResponse(status, FullPage))
            = Thrown(FetchFailedMessage(status))
     /\ \A id \in DOMAIN tasks' : CaughtFetchFailure(tasks'[id])
     /\ \A r \in Slots : CaughtFetchFailure(reqs'[r])
     /\ \A id \in DOMAIN tasks :
          (tasks[id].pc = "catch" /\ tasks'[id].pc # "catch" /\ Exists(id)) =>
            /\ StatusOf(recipes', id) = "error"
            /\ recipes'[id].scrapeError = JStr(tasks[id].scraped.v)
     /\ \A r \in Slots :
          (reqs[r].pc = "catch" /\ reqs'[r].pc # "catch" /\ Exists(reqs[r].id)) =>
            /\ StatusOf(recipes', reqs[r].id) = "error"
            /\ recipes'[reqs[r].id].scrapeError = JStr(reqs[r].scraped.v)]_vars

\* A detached extraction was answered 404 and has stored the failure.
C7_Witness ==
  \E id \in DOMAIN tasks :
    /\ tasks[id].pc = "done"
    /\ Exists(id)
    /\ StatusOf(recipes, id) = "error"
    /\ recipes[id].scrapeError = JStr(<<"Fetch failed (", "404", ")">>)

\* Pages without a recipe node: no block, only malformed blocks, only nodes
\* that are not recipes.
PlainLayouts == {"none", "malformed", "article", "null"}

HasNoRecipeNode(input) ==
  /\ input.response.k = "http"
  /\ input.response.status = 200
  /\ input.response.page.scripts \in {Scripts(layout, Undef) : layout \in PlainLayouts}

C9_TitleNeverEmpty ==
  scrapeOut.k = "ok" => scrapeOut.v.title # <<>>

MalformedSourceUrls ==
  {Undef, JStr(<<"not-a-url">>), JStr(<<"https://">>), JStr(<<" ">>)}

\* C10: a submission with a malformed sourceUrl is answered with the
\* validation error in the step that receives it, with the records, the
\* id sequence and the detached extractions unchanged; no handler goes on
\* with a malformed sourceUrl and no record is created with one.
C10_MalformedUrlRejectedFirst ==
  [][/\ (Received /\ answered'.op = "create" /\ reqs' = reqs
          /\ answered'.body.sourceUrl \in MalformedSourceUrls) =>
            /\ answered'.resp = ErrorResponse(500, <<"ZodError">>)
            /\ recipes' = recipes /\ tasks' = tasks /\ nextId' = nextId
     /\ \A r \in Slots :
          (reqs'[r].op = "create") =>
            reqs'[r].body.sourceUrl \notin MalformedSourceUrls
     /\ \A id \in DOMAIN recipes' :
          recipes'[id].sourceUrl \notin MalformedSourceUrls]_vars

\* A submission of "not-a-url" has been refused and nothing is stored.
C10_Witness ==
  /\ answered.op = "create"
  /\ answered.body.sourceUrl = JStr(<<"not-a-url">>)
  /\ answered.resp.status = 500
  /\ recipes = <<>> /\ tasks = <<>> /\ nextId = 1

(***************************************************************************)
(* Selection of the recipe node: scrapeRecipe on pages made of up to       *)
(* MaxBlocks linked-data blocks.  Every node of block i is named by i and  *)
(* by a letter for its place in the block, so the title returned tells the *)
(* node that was selected.                                                 *)
(***************************************************************************)
BlockKinds ==
  {"malformed", "null", "article", "recipepage", "untyped", "recipe", "list",
   "graph", "nested", "wrapper"}

NamedNode(type, tag, letter) ==
  JObj(("@type" :> type) @@ [name |-> JStr(<<tag, letter>>)])

Block(kind, tag) ==
  CASE kind = "malformed" -> Malformed
    [] kind = "null" -> JNull
    [] kind = "article" -> NamedNode(JStr(<<"Article">>), tag, "a")
    [] kind = "recipepage" -> NamedNode(JStr(<<"RecipePage">>), tag, "a")
    [] kind = "untyped" -> JObj([name |-> JStr(<<tag, "a">>)])
    [] kind = "recipe" -> NamedNode(JStr(<<"recipe">>), tag, "a")
    [] kind = "list" ->
         NamedNode(JArr(<<JNum(1), JStr(<<"Article">>), JStr(<<"RECIPE">>)>>), tag, "a")
    [] kind = "graph" ->
         JObj("@graph" :> JArr(<<NamedNode(JStr(<<"Article">>), tag, "a"),
                                 NamedNode(JStr(<<"Recipe">>), tag, "b"),
                                 NamedNode(JStr(<<"Recipe">>), tag, "c")>>))
    [] kind = "nested" ->
         JArr(<<JNum(0),
                JArr(<<NamedNode(JStr(<<"Article">>), tag, "a")>>),
                JArr(<<JObj("@graph" :> JArr(<<NamedNode(JStr(<<"Recipe">>), tag, "b")>>))>>)>>)
    [] kind = "wrapper" ->
         JObj(("@graph" :> JArr(<<NamedNode(JStr(<<"Article">>), tag, "b")>>))
                @@ ("@type" :> JStr(<<"Recipe">>)) @@ [name |-> JStr(<<tag, "a">>)])

BlockLists == UNION {[1..n -> BlockKinds] : n \in 1..MaxBlocks}

BlocksPage(kinds) ==
  [scripts |-> [i \in 1..Len(kinds) |-> Block(kinds[i], ToString(i))],
   ogTitle |-> Undef,
   titleTag |-> <<"Tart">>,
   metaImages |-> <<Undef, Undef, Undef, Undef, Undef, Undef>>]

SelectInputs ==
  {[sourceUrl |-> PageUrl, response |-> HttpResponse(200, BlocksPage(kinds)), kinds |-> kinds] :
     kinds \in BlockLists}

SelectInit ==
  /\ ServerInit
  /\ ClientIdle
  /\ scrapeIn \in SelectInputs
  /\ scrapeOut = IdleScrape

SelectSpec == SelectInit /\ [][ScrapeNext]_vars

\* The letter of the first recipe node of a block of each kind that has one.
FirstRecipeLetter ==
  [recipe |-> "a", list |-> "a", graph |-> "b", nested |-> "b"]

HasRecipe(kind) == kind \in DOMAIN FirstRecipeLetter

\* C11: the node scrapeRecipe takes its fields from is the first recipe
\* node of the first block that has one, whatever malformed blocks and
\* other nodes come before it; without one the title is the page's.
C11_FirstRecipeNodeSelected ==
  scrapeOut # IdleScrape =>
    LET kinds == scrapeIn.kinds
        with == {i \in 1..Len(kinds) : HasRecipe(kinds[i])}
    IN /\ scrapeOut.k = "ok"
       /\ scrapeOut.v.title =
            IF with = {} THEN <<"Tart">>
            ELSE LET first == CHOOSE i \in with : \A j \in with : i <= j
                 IN <<ToString(first), FirstRecipeLetter[kinds[first]]>>

\* A malformed block, then a block of articles, then a graph holding the
\* recipe: its second node was selected.
C11_Witness ==
  /\ scrapeOut.k = "ok"
  /\ Len(scrapeIn.kinds) >= 3
  /\ scrapeIn.kinds[1] = "malformed"
  /\ scrapeIn.kinds[2] = "article"
  /\ scrapeIn.kinds[3] = "graph"
  /\ scrapeOut.v.title = <<"3", "b">>

(***************************************************************************)
(* The lists of a recipe: scrapeRecipe on a page whose recipe node has one *)
(* of recipeIngredient and recipeInstructions, in every shape.             *)
(***************************************************************************)
LineTexts == TextsUpTo({" ", "&nbsp;", "Mix", "1."}, MaxTextLen)

StepObject(t) == JObj([text |-> JStr(t)])

ListShapes ==
  {Undef, JNull, JNum(2), JArr(<<>>)}
    \cup {JStr(t) : t \in LineTexts}
    \cup {JArr(<<JStr(t), JNum(1), JStr(u)>>) : t, u \in LineTexts}
    \cup {JArr(<<StepObject(t), JObj([itemListElement |-> JArr(<<StepObject(u)>>)])>>) :
            t, u \in LineTexts}
    \cup {JArr(<<JObj([itemListElement |-> JStr(t)]), JNull>>) : t \in LineTexts}

ListPage(field, value) ==
  [scripts |-> <<JObj(("@type" :> JStr(<<"Recipe">>))
                        @@ [name |-> JStr(<<"Pie">>)] @@ (field :> value))>>,
   ogTitle |-> Undef,
   titleTag |-> <<"Tart">>,
   metaImages |-> <<Undef, Undef, Undef, Undef, Undef, Undef>>]

ListInputs ==
  {[sourceUrl |-> PageUrl, response |-> HttpResponse(200, ListPage(field, value)),
    field |-> field, value |-> value] :
     field \in {"recipeIngredient", "recipeInstructions"}, value \in ListShapes}

ListInit ==
  /\ ServerInit
  /\ ClientIdle
  /\ scrapeIn \in ListInputs
  /\ scrapeOut = IdleScrape

ListSpec == ListInit /\ [][ScrapeNext]_vars

\* list is absent or a non-empty list of non-empty normalized strings.
AbsentOrLines(list) ==
  \/ list = Undef
  \/ /\ list.k = "array"
     /\ Len(list.v) > 0
     /\ \A i \in 1..Len(list.v) :
          /\ list.v[i] # <<>>
          /\ list.v[i] = normalizeText(list.v[i])

\* C12: ingredients and instructions of a result are each absent or a
\* non-empty list of non-empty normalized strings.
C12_ListsAbsentOrNonEmpty ==
  scrapeOut.k = "ok" =>
    /\ AbsentOrLines(scrapeOut.v.ingredients)
    /\ AbsentOrLines(scrapeOut.v.instructions)

(***************************************************************************)
(* Images: scrapeRecipe on a page whose recipe node has an image in every  *)
(* shape and whose head has image metadata.                                *)
(***************************************************************************)
ImageTexts ==
  {<<"//">>, <<"//", "[">>, <<"//", "cdn.test", "/a.jpg">>, <<"/img.jpg">>,
   <<"img.jpg">>, <<" ", "https://", "cdn.test", "/a.jpg">>, <<"http://", "cdn.test">>,
   <<"https://">>, <<"http://", "[">>, <<" ">>}

ImageShapes ==
  {Undef, JNull, JNum(1)}
    \cup {JStr(t) : t \in ImageTexts}
    \cup {JArr(<<JNum(1), JStr(t), JStr(u)>>) : t, u \in ImageTexts}
    \cup {JObj([url |-> JStr(t), thumbnailUrl |-> JStr(u)]) : t, u \in ImageTexts}
    \cup {JObj([contentUrl |-> JStr(t)]) : t \in ImageTexts}

ImagePage(image, meta) ==
  [scripts |-> <<JObj(("@type" :> JStr(<<"Recipe">>))
                        @@ [name |-> JStr(<<"Pie">>), image |-> image])>>,
   ogTitle |-> Undef,
   titleTag |-> <<"Tart">>,
   metaImages |-> meta]

ImageInputs ==
  {[sourceUrl |-> PageUrl, response |-> HttpResponse(200, ImagePage(image, meta)),
    image |-> image] :
     image \in ImageShapes, meta \in MetaImageChoices}

ImageInit ==
  /\ ServerInit
  /\ ClientIdle
  /\ scrapeIn \in ImageInputs
  /\ scrapeOut = IdleScrape

ImageSpec == ImageInit /\ [][ScrapeNext]_vars

\* The text t reads as an absolute URL: a scheme, written as one token or
\* as "https:" and "//", then a host the URL parser accepts, then a path.
ReadsAsAbsoluteUrl(t) ==
  LET rest == IF Len(t) >= 2 /\ t[1] = "https:" /\ t[2] = "//"
              THEN <<"https://">> \o SubSeq(t, 3, Len(t))
              ELSE t
  IN /\ Len(rest) \in {2, 3}
     /\ rest[1] \in {"https://", "http://"}
     /\ rest[2] \notin {"https://", "http://", "//", "[", " "}
     /\ Len(rest) = 3 => rest[3] \notin {"https://", "http://", "//", "[", " "}

\* C13: the imageUrl of a result is absent or a valid absolute URL.
C13_ImageUrlIsAbsolute ==
  scrapeOut.k = "ok" =>
    \/ scrapeOut.v.imageUrl = Undef
    \/ /\ scrapeOut.v.imageUrl.k = "string"
       /\ ReadsAsAbsoluteUrl(scrapeOut.v.imageUrl.v)

(***************************************************************************)
(* Servings: scrapeRecipe on a page whose recipe node has recipeYield and  *)
(* yield in every shape.                                                   *)
(***************************************************************************)
ServingsTexts ==
  TextsUpTo({" ", "4", "GLYPH_1_2", "servings"}, MaxTextLen)
    \cup {<<"Makes", " ", "12">>,
          <<"2", ".", "5", " ", "loaves">>,
          <<"1", "/", "0">>,
          <<"1", " ", "1", "/", "2", " ", "dozen">>,
          <<"Serves", " ", "4", " ", "(", "1", " ", "1", "/", "2", " ", "cups", ")">>,
          <<"2", " ", "loaves", " ", "1", "/", "2", " ", "each">>}

YieldShapes ==
  {Undef, JNull, JNum(0), JNum(6), JArr(<<>>)}
    \cup {JStr(t) : t \in ServingsTexts}
    \cup {JArr(<<JNull, JArr(<<JStr(t)>>), JNum(8)>>) : t \in ServingsTexts}

ServingsPage(recipeYield, yield) ==
  [scripts |-> <<JObj(("@type" :> JStr(<<"Recipe">>))
                        @@ [name |-> JStr(<<"Pie">>), recipeYield |-> recipeYield,
                            yield |-> yield, servings |-> JNum(3)])>>,
   ogTitle |-> Undef,
   titleTag |-> <<"Tart">>,
   metaImages |-> <<Undef, Undef, Undef, Undef, Undef, Undef>>]

ServingsInputs ==
  {[sourceUrl |-> PageUrl,
    response |-> HttpResponse(200, ServingsPage(recipeYield, yield))] :
     recipeYield \in YieldShapes, yield \in {Undef, JStr(<<"10">>)}}

ServingsInit ==
  /\ ServerInit
  /\ ClientIdle
  /\ scrapeIn \in ServingsInputs
  /\ scrapeOut = IdleScrape

ServingsSpec == ServingsInit /\ [][ScrapeNext]_vars

\* The value of the numeric token of s that starts at position p: a mixed
\* fraction, a fraction, a decimal or an integer.
NumericTokenAt(s, p) ==
  LET q == SkipSpaces(s, p + 1)
  IN IF MixedAt(s, p) /\ FracDen(s, q) # 0
     THEN Rat(DigitsValue[s[p]] * FracDen(s, q) + FracNum(s, q), FracDen(s, q))
     ELSE IF FracAt(s, p) /\ FracDen(s, p) # 0
          THEN Rat(FracNum(s, p), FracDen(s, p))
          ELSE IF p + 2 <= Len(s) /\ s[p + 1] = "." /\ IsDigits(s[p + 2])
               THEN Rat(DigitsValue[s[p]] * DecimalScale(s[p + 2]) + DigitsValue[s[p + 2]],
                        DecimalScale(s[p + 2]))
               ELSE Rat(DigitsValue[s[p]], 1)

\* C14: servings is the value of the first numeric token of servingsText
\* (fraction glyphs read as n/d), and is absent when servingsText is absent
\* or has no numeric token.
C14_ServingsIsLeadingNumber ==
  scrapeOut.k = "ok" =>
    IF ~Truthy(scrapeOut.v.servingsText) THEN scrapeOut.v.servings = Undef
    ELSE LET s == normalizeFractions(scrapeOut.v.servingsText.v)
             digits == {i \in 1..Len(s) : IsDigits(s[i])}
         IN IF digits = {} THEN scrapeOut.v.servings = Undef
            ELSE scrapeOut.v.servings =
                   NumericTokenAt(s, CHOOSE i \in digits : \A j \in digits : i <= j)

(***************************************************************************)
(* The quantity functions of the web client (src/unnamed/part_001).        *)
(* A number is [k |-> "number", v |-> <<n, d>>]: the value n/d in lowest   *)
(* terms, d = 0 for a value that is not finite.  Quantities are not        *)
(* negative.  A run of digits is one token, "HUGE" a run so long that its  *)
(* Number() is Infinity; the digits formatQuantity writes after a decimal  *)
(* point are one token each.                                               *)
(***************************************************************************)
NotFinite == [k |-> "number", v |-> <<1, 0>>]

IsFiniteNumber(x) == x.k = "number" /\ x.v[2] # 0

\* x * y of two numbers
Times(x, y) ==
  IF IsFiniteNumber(x) /\ IsFiniteNumber(y)
  THEN Rat(x.v[1] * y.v[1], x.v[2] * y.v[2])
  ELSE NotFinite

\* Math.round of n/d: halves go up.
MathRound(n, d) == (n \div d) + (IF 2 * (n % d) >= d THEN 1 ELSE 0)

\* Math.abs(n/d - r) < 1e-9 for an integer r, a being |n - r * d|.
WithinRoundingError(a, d) == a = 0 \/ a <= (d - 1) \div 1000000000

AbsDiff(a, b) == IF a >= b THEN a - b ELSE b - a

\* gcd(a, b) of part_001: x || 1 at the end.
gcd(a, b) == IF Gcd(a, b) = 0 THEN 1 ELSE Gcd(a, b)

\* The decimal String(Math.round(value * 100) / 100), hundredths being
\* Math.round(value * 100), with the zeros at its end removed.
TrimmedDecimal(hundredths) ==
  LET int == hundredths \div 100
      frac == hundredths % 100
  IN IF frac = 0 THEN <<ToString(int)>>
     ELSE IF frac % 10 = 0 THEN <<ToString(int), ".", ToString(frac \div 10)>>
     ELSE <<ToString(int), ".", ToString(frac \div 10), ToString(frac % 10)>>

\* formatQuantity without the test of num0: a fraction is always written.
formatQuantityNoZeroTest(value) ==
  IF ~IsFiniteNumber(value) THEN <<>>
  ELSE LET n == value.v[1]
           d == value.v[2]
           eighths == MathRound(8 * n, d)
           whole == eighths \div 8
           num0 == eighths % 8
           g == gcd(num0, 8)
       IN IF WithinRoundingError(AbsDiff(n, MathRound(n, d) * d), d)
          THEN <<ToString(MathRound(n, d))>>
          ELSE IF AbsDiff(8 * n, eighths * d) * 100 < 2 * 8 * d
               THEN IF whole > 0
                    THEN <<ToString(whole), " ", ToString(num0 \div g), "/", ToString(8 \div g)>>
                    ELSE <<ToString(num0 \div g), "/", ToString(8 \div g)>>
               ELSE TrimmedDecimal(MathRound(100 * n, d))

formatQuantity(value) ==
  IF ~IsFiniteNumber(value) THEN <<>>
  ELSE LET n == value.v[1]
           d == value.v[2]
           roundedInt == MathRound(n, d)
           \* eighth = eighths / 8
           eighths == MathRound(8 * n, d)
           whole == eighths \div 8
           num0 == eighths % 8
           g == gcd(num0, 8)
       IN IF WithinRoundingError(AbsDiff(n, roundedInt * d), d)
          THEN <<ToString(roundedInt)>>
          ELSE IF AbsDiff(8 * n, eighths * d) * 100 < 2 * 8 * d
               THEN IF num0 = 0 THEN <<ToString(whole)>>
                    ELSE IF whole > 0
                         THEN <<ToString(whole), " ", ToString(num0 \div g), "/",
                                ToString(8 \div g)>>
                         ELSE <<ToString(num0 \div g), "/", ToString(8 \div g)>>
               ELSE TrimmedDecimal(MathRound(100 * n, d))

\* normalizeFractions of part_001: the glyphs are rewritten, then every run
\* of whitespace becomes one space.
WebNormalizeFractions(text) == CollapseSpaces(normalizeFractions(text))

\* Number(digits)
NumberOf(tok) == IF tok = "HUGE" THEN NotFinite ELSE Rat(DigitsValue[tok], 1)

\* The digit runs: the ones read and the ones String(n) writes.
DigitRuns == {ToString(n) : n \in 0..999} \cup {"HUGE"}

IsDigitRun(tok) == tok \in DigitRuns

\* \w: the tokens made of letters or digits.
IsWordToken(tok) ==
  IsDigitRun(tok) \/ tok \in {"to", "TO", "eggs", "cup", "servings", "serving", "Serves", "Makes"}

DigitRunAt(s, i) == i >= 1 /\ i <= Len(s) /\ IsDigitRun(s[i])

\* \b after token i, a digit run.
BoundaryAfter(s, i) == i = Len(s) \/ ~IsWordToken(s[i + 1])

\* /(\d+)\s*\/\s*(\d+)\b/ matched at token i: the place of the denominator,
\* or 0.
FractionEnd(s, i) ==
  LET k == SkipSpaces(s, i + 1)
      l == SkipSpaces(s, k + 1)
  IN IF DigitRunAt(s, i) /\ k <= Len(s) /\ s[k] = "/" /\ DigitRunAt(s, l)
        /\ BoundaryAfter(s, l)
     THEN l ELSE 0

\* whole + num / den when the three are finite and den is not 0, or null.
QuantityValue(whole, num, den) ==
  IF IsFiniteNumber(whole) /\ IsFiniteNumber(num) /\ IsFiniteNumber(den) /\ den.v[1] # 0
  THEN Rat(whole.v[1] * den.v[1] + num.v[1], den.v[1])
  ELSE JNull

\* Number of the decimal or integer s starts with.
LeadingDecimal(s) ==
  IF Len(s) >= 3 /\ s[2] = "." /\ IsDigitRun(s[3])
  THEN IF IsFiniteNumber(NumberOf(s[1])) /\ IsFiniteNumber(NumberOf(s[3]))
       THEN Rat(DigitsValue[s[1]] * DecimalScale(s[3]) + DigitsValue[s[3]],
                DecimalScale(s[3]))
       ELSE NotFinite
  ELSE NumberOf(s[1])

parseQuantityToken(token) ==
  LET s == Trim(WebNormalizeFractions(token))
      second == SkipSpaces(s, 2)
      mixedEnd == IF DigitRunAt(s, 1) /\ Len(s) >= 2 /\ IsSpace(s[2])
                  THEN FractionEnd(s, second) ELSE 0
      mixed == IF mixedEnd > 0
               THEN QuantityValue(NumberOf(s[1]), NumberOf(s[second]), NumberOf(s[mixedEnd]))
               ELSE JNull
      fracEnd == FractionEnd(s, 1)
      frac == IF fracEnd > 0
              THEN QuantityValue(Rat(0, 1), NumberOf(s[1]), NumberOf(s[fracEnd]))
              ELSE JNull
  IN IF mixed # JNull THEN mixed
     ELSE IF frac # JNull THEN frac
     ELSE IF DigitRunAt(s, 1) /\ IsFiniteNumber(LeadingDecimal(s)) THEN LeadingDecimal(s)
     ELSE JNull

\* The quantity pattern \d+\s+\d+\/\d+|\d+\/\d+|\d+(?:\.\d+)? matched at
\* token i: the number of tokens it takes, 0 when it does not match.
QtyLen(s, i) ==
  LET p == SkipSpaces(s, i + 1)
  IN IF ~DigitRunAt(s, i) THEN 0
     ELSE IF p > i + 1 /\ DigitRunAt(s, p) /\ p + 2 <= Len(s) /\ s[p + 1] = "/"
             /\ DigitRunAt(s, p + 2)
          THEN p + 3 - i
          ELSE IF i + 2 <= Len(s) /\ s[i + 1] \in {"/", "."} /\ DigitRunAt(s, i + 2)
               THEN 3
               ELSE 1

IsRangeSeparator(tok) == tok \in {"-", "EN_DASH", "to", "TO"}

\* The multipliers at which a line is left alone, 1 left out.
NoOpMultiplierNotFinite(multiplier) == ~IsFiniteNumber(multiplier)

\* !Number.isFinite(multiplier) || multiplier === 1
NoOpMultiplier(multiplier) == ~IsFiniteNumber(multiplier) \/ multiplier = Rat(1, 1)

\* The separator written as "-" whatever it was.
RangeSeparatorDash(between) == <<"-">>

\* (m[3] ?? '').replace(b, '').trim() || '-': between is m[3] without b.
RangeSeparator(between) == IF Trim(between) # <<>> THEN Trim(between) ELSE <<"-">>

\* The pattern of scaleLeadingQuantity is ^(\s*)(qty)(\s*(?:-|EN DASH|to)\s*(qty))?(.*)$
\* without regard to case: prefix is tokens 1..i-1 of the normalized line,
\* a starts at i, the separator is at k and b starts at l.
scaleLeadingQuantity(line, multiplier) ==
  IF line = <<>> \/ NoOpMultiplier(multiplier) THEN line
  ELSE LET normalized == WebNormalizeFractions(line)
           i == SkipSpaces(normalized, 1)
           alen == QtyLen(normalized, i)
           j == i + alen
           k == SkipSpaces(normalized, j)
           l == SkipSpaces(normalized, k + 1)
           blen == IF k <= Len(normalized) /\ IsRangeSeparator(normalized[k])
                   THEN QtyLen(normalized, l) ELSE 0
           prefix == SubSeq(normalized, 1, i - 1)
           a == SubSeq(normalized, i, j - 1)
           b == SubSeq(normalized, l, l + blen - 1)
           suffix == CollapseSpaces(SubSeq(normalized, IF blen > 0 THEN l + blen ELSE j,
                                           Len(normalized)))
           aNum == parseQuantityToken(a)
           bNum == parseQuantityToken(b)
           aScaled == formatQuantity(Times(aNum, multiplier))
           bScaled == formatQuantity(Times(bNum, multiplier))
           sep == RangeSeparator(SubSeq(normalized, j, l - 1))
       IN IF alen = 0 \/ aNum = JNull THEN line
          ELSE IF blen > 0
               THEN IF bNum = JNull THEN prefix \o aScaled \o suffix
                    ELSE Trim(CollapseSpaces(
                           prefix \o aScaled \o <<" ">> \o sep \o <<" ">> \o bScaled \o suffix))
               ELSE Trim(CollapseSpaces(prefix \o aScaled \o suffix))

\* String.prototype.replace with the global quantity pattern and the
\* callback of scaleServingsLabel: the first two quantities are scaled.
\* A replacement callback that never stops scaling.
CountNeverReached(count) == FALSE

\* if (count >= 2) return raw
CountReached(count) == count >= 2

RECURSIVE ReplaceQuantities(_, _, _, _)
ReplaceQuantities(s, i, count, multiplier) ==
  IF i > Len(s) THEN <<>>
  ELSE LET len == QtyLen(s, i)
           raw == SubSeq(s, i, i + len - 1)
           n == parseQuantityToken(raw)
       IN IF len = 0 THEN <<s[i]>> \o ReplaceQuantities(s, i + 1, count, multiplier)
          ELSE IF CountReached(count) \/ n = JNull
               THEN raw \o ReplaceQuantities(s, i + len, count, multiplier)
               ELSE formatQuantity(Times(n, multiplier))
                      \o ReplaceQuantities(s, i + len, count + 1, multiplier)

IsServingsWord(tok) == tok \in {"servings", "serving", "Servings"}

\* /\bservings?\b/i matches at token i.
ServingsWordAt(s, i) ==
  /\ IsServingsWord(s[i])
  /\ i = 1 \/ ~IsWordToken(s[i - 1])
  /\ i = Len(s) \/ ~IsWordToken(s[i + 1])

\* label.replace(/\bservings?\b/i, ''): the first match is taken out.
RemoveServingsWord(s) ==
  LET at == {i \in 1..Len(s) : ServingsWordAt(s, i)}
      first == CHOOSE i \in at : \A j \in at : i <= j
  IN IF at = {} THEN s
     ELSE SubSeq(s, 1, first - 1) \o SubSeq(s, first + 1, Len(s))

\* baseNum with 0 for a recipe without a servings number.
BaseNumOrZero(recipe) ==
  IF IsFiniteNumber(recipe.servings) THEN recipe.servings ELSE Rat(0, 1)

\* typeof recipe.servings === 'number' && Number.isFinite(recipe.servings)
\*   ? recipe.servings : null
BaseNum(recipe) == IF IsFiniteNumber(recipe.servings) THEN recipe.servings ELSE JNull

scaleServingsLabel(recipe, multiplier) ==
  LET baseText == IF recipe.servingsText.k = "string" THEN Trim(recipe.servingsText.v) ELSE <<>>
      baseNum == BaseNum(recipe)
      label == Trim(ReplaceQuantities(WebNormalizeFractions(baseText), 1, 0, multiplier))
      bare == Trim(RemoveServingsWord(label))
  IN IF baseText = <<>> /\ baseNum = JNull THEN JNull
     ELSE IF baseText # <<>>
          THEN IF label # <<>> /\ IsDigitRun(label[1])
               THEN JStr(<<"Serves", " ">> \o bare)
               ELSE IF (\E i \in 1..Len(label) :
                          IsServingsWord(label[i])
                            /\ (i = Len(label) \/ ~IsWordToken(label[i + 1])))
                       /\ ~(label # <<>> /\ label[1] \in {"Serves", "serves"}
                              /\ BoundaryAfter(label, 1))
                    THEN IF bare # <<>> THEN JStr(<<"Serves", " ">> \o bare)
                         ELSE JStr(<<"Serves">>)
                    ELSE JStr(label)
          ELSE JStr(<<"Serves", " ">> \o formatQuantity(Times(baseNum, multiplier)))

\* texts.join(sep)
RECURSIVE JoinTexts(_, _)
JoinTexts(texts, sep) ==
  IF Len(texts) = 0 THEN <<>>
  ELSE IF Len(texts) = 1 THEN texts[1]
  ELSE texts[1] \o sep \o JoinTexts(Tail(texts), sep)

(***************************************************************************)
(* Lines of the detail view (src/unnamed/part_001): normalizeLines and     *)
(* stripLeadingStepNumber.                                                 *)
(***************************************************************************)
\* String(value) of an element of an array being joined: null and undefined
\* are written as nothing.
RECURSIVE StringOf(_)
JoinedElement(x) == IF x.k \in {"null", "undefined"} THEN <<>> ELSE StringOf(x)

\* String(value) of a value read from JSON.
StringOf(x) ==
  CASE x.k = "string" -> x.v
    [] x.k = "number" -> <<ToString(x.v)>>
    [] x.k = "null" -> <<"null">>
    [] x.k = "undefined" -> <<"undefined">>
    [] x.k = "array" -> JoinTexts([i \in 1..Len(x.v) |-> JoinedElement(x.v[i])], <<",">>)
    [] OTHER -> <<"[object Object]">>

\* .replace(/\r\n/g, '\n')
RECURSIVE ReplaceCrLf(_)
ReplaceCrLf(s) ==
  IF s = <<>> THEN <<>>
  ELSE IF Len(s) >= 2 /\ s[1] = "\r" /\ s[2] = "\n"
       THEN <<"\n">> \o ReplaceCrLf(SubSeq(s, 3, Len(s)))
       ELSE <<Head(s)>> \o ReplaceCrLf(Tail(s))

\* s.split(...) at every token of seps, cur being the piece read so far.
RECURSIVE SplitAt(_, _, _)
SplitAt(s, seps, cur) ==
  IF s = <<>> THEN <<cur>>
  ELSE IF Head(s) \in seps THEN <<cur>> \o SplitAt(Tail(s), seps, <<>>)
       ELSE SplitAt(Tail(s), seps, Append(cur, Head(s)))

\* .map((s) => s.trim()).filter(Boolean)
TrimmedNonEmpty(texts) ==
  SelectSeq([i \in 1..Len(texts) |-> Trim(texts[i])], LAMBDA t : t # <<>>)

normalizeLines(value) ==
  IF ~Truthy(value) THEN <<>>
  ELSE IF value.k = "array"
       THEN TrimmedNonEmpty([i \in 1..Len(value.v) |-> StringOf(value.v[i])])
       ELSE LET s == Trim(ReplaceCrLf(StringOf(value)))
            IN IF s = <<>> THEN <<>>
               ELSE TrimmedNonEmpty(SplitAt(s, {"\n"}, <<>>))

\* s.replace(/^\s*(?:step\s*)?\d+\s*[\).\:-]\s*/i, '').trim()
stripLeadingStepNumber(s) ==
  LET i == SkipSpaces(s, 1)
      d == IF i <= Len(s) /\ s[i] \in {"step", "Step", "STEP"} THEN SkipSpaces(s, i + 1) ELSE i
      j == SkipSpaces(s, d + 1)
      k == SkipSpaces(s, j + 1)
  IN IF DigitRunAt(s, d) /\ j <= Len(s) /\ s[j] \in {")", ".", ":", "-"}
     THEN Trim(SubSeq(s, k, Len(s)))
     ELSE Trim(s)

(***************************************************************************)
(* The quantity functions on their own: one call on each input.            *)
(***************************************************************************)
QuantityTexts ==
  {<<"0">>, <<"1">>, <<"2">>, <<"3">>, <<"1", " ", "1", "/", "2">>, <<"1", "/", "2">>,
   <<"1", "/", "4">>, <<"2", ".", "5">>, <<"GLYPH_1_2">>, <<"GLYPH_3_4">>,
   <<"1", "GLYPH_1_2">>, <<"1", "/", "0">>, <<"1", " ", "1", "/", "0">>, <<"HUGE">>,
   <<"0", ".", "1">>}

RangeJoins ==
  {<<"-">>, <<" ", "-", " ">>, <<"EN_DASH">>, <<" ", "to", " ">>, <<"to">>,
   <<" ", "TO", " ">>}

RangeEnds ==
  {<<"2">>, <<"4">>, <<"1", " ", "1", "/", "2">>, <<"GLYPH_3_4">>, <<"1", "/", "0">>,
   <<"HUGE">>}

Suffixes ==
  {<<>>, <<" ", "eggs">>, <<"cup">>, <<" ", "cup", " ", " ", "GLYPH_3_4">>}

\* No two digit runs and no two words side by side: each token is a whole
\* run of the text.
IsTokenized(t) ==
  \A i \in 1..(Len(t) - 1) :
    /\ ~(IsDigitRun(t[i]) /\ IsDigitRun(t[i + 1]))
    /\ ~(IsWordToken(t[i]) /\ IsWordToken(t[i + 1]) /\ ~IsDigitRun(t[i]) /\ ~IsDigitRun(t[i + 1]))

FreeTexts ==
  {t \in TextsUpTo({" ", "1", "2", "/", ".", "-", "cup", "GLYPH_1_2"}, MaxTextLen) :
     IsTokenized(t)}

\* A line as its parts: leading whitespace, a first quantity, a separator and
\* a second quantity (both empty when the line holds no range), and the rest.
LineParts ==
  {p \in [prefix : {<<>>, <<" ">>},
          a : QuantityTexts \cup {<<>>, <<"eggs">>},
          join : RangeJoins \cup {<<>>},
          b : RangeEnds \cup {<<>>},
          suffix : Suffixes] :
     (p.join = <<>>) <=> (p.b = <<>>)}

Unstructured(t) == [prefix |-> <<>>, a |-> <<>>, join |-> <<>>, b |-> <<>>, suffix |-> t]

LineOf(p) == p.prefix \o p.a \o p.join \o p.b \o p.suffix

Lines == LineParts \cup {Unstructured(t) : t \in FreeTexts}

Multipliers == {Rat(1, 1), Rat(2, 1), Rat(1, 2), Rat(3, 1), Rat(1, 10), Rat(10, 1), NotFinite}

ParseTexts ==
  {pad \o q \o tail :
     pad \in {<<>>, <<" ">>},
     q \in QuantityTexts,
     tail \in {<<>>, <<"cup">>, <<" ", "cup">>, <<"-", "2">>, <<".", "cup">>}}
    \cup FreeTexts

\* 1 + 1/(2^30 - 1): not an integer, and within 1e-9 of one.
NearOne == [k |-> "number", v |-> <<1073741824, 1073741823>>]

Values ==
  {Rat(n, d) : n \in 0..250, d \in {1, 2, 3, 8, 10, 100}} \cup {NotFinite, NearOne}

ServingsLabels ==
  {<<>>, <<" ">>, <<"4">>, <<"4", " ", "servings">>, <<"Makes", " ", "12">>,
   <<"servings">>, <<"Serves", " ", "4">>, <<"1", "-", "2", " ", "servings">>,
   <<"GLYPH_1_2", " ", "serving", " ", "1", " ", "2", " ", "3">>}

WebRecipes ==
  [servings : {Undef, JNull, NotFinite, Rat(0, 1), Rat(4, 1), Rat(3, 2)},
   servingsText : {Undef, JNull} \cup {JStr(t) : t \in ServingsLabels}]

LabelQuantities ==
  {<<"4">>, <<"6">>, <<"1", " ", "1", "/", "2">>, <<"2", ".", "5">>, <<"GLYPH_1_2">>,
   <<"1", "/", "0">>, <<"HUGE">>}

\* A servings text as its parts: the quantities written in it, what is
\* written between two of them, and the words around them.
LabelParts ==
  [lead : {<<>>, <<"Makes", " ">>},
   qs : UNION {[1..n -> LabelQuantities] : n \in 1..MaxQuantities},
   sep : {<<"-">>, <<" ", "to", " ">>, <<" ", "servings", " ">>},
   tail : {<<>>, <<" ", "servings">>}]

LabelOf(l) == l.lead \o JoinTexts(l.qs, l.sep) \o l.tail

\* Text blobs with every mix of line endings, and collections of elements of
\* every kind.
BlobTexts == TextsUpTo({"a", " ", "\n", "\r"}, MaxTextLen + 2)

\* Values by their shape: a text, a collection of items, or one of the
\* other values JSON can hold.
LineElements ==
  [shape : {"null", "zero", "five", "object", "nested"}, text : {<<>>}]
    \cup [shape : {"text"}, text : TextsUpTo({"a", " ", "\n"}, MaxTextLen)]

LineValues ==
  [shape : {"undefined", "null", "zero", "five", "object"}, text : {<<>>}, items : {<<>>}]
    \cup [shape : {"text"}, text : BlobTexts, items : {<<>>}]
    \cup [shape : {"array"}, text : {<<>>},
          items : UNION {[1..n -> LineElements] : n \in 0..2}]

RECURSIVE ValueOf(_)
ValueOf(d) ==
  CASE d.shape = "undefined" -> Undef
    [] d.shape = "null" -> JNull
    [] d.shape = "zero" -> JNum(0)
    [] d.shape = "five" -> JNum(5)
    [] d.shape = "object" -> JObj(<<>>)
    [] d.shape = "nested" -> JArr(<<JNull, JStr(<<"a">>)>>)
    [] d.shape = "text" -> JStr(d.text)
    [] d.shape = "array" -> JArr([i \in 1..Len(d.items) |-> ValueOf(d.items[i])])

\* Step lines as a numbering (none for a line that is not numbered) and the
\* instruction's own content.
StepNumberings ==
  {<<>>, <<"1", ".", " ">>, <<"Step", " ", "2", ":", " ">>, <<"3", ")">>,
   <<" ", "step", "4", " ", "-", " ">>, <<"12", "-">>}

StepContents ==
  {<<>>, <<"Preheat", " ", "oven">>, <<"Step", " ", "back">>, <<"Bake", " ", "2", "-", "3", " ", "minutes">>,
   <<"2", "-", "3", " ", "minutes">>, <<"1", ".", "5", " ", "cups">>, <<"350", " ", "degrees">>,
   <<"2", " ", "eggs", ".">>, <<"10", ":", "30">>, <<"1", ".", " ", "Preheat">>}

WebInputs ==
  {[fn |-> "scaleLeadingQuantity", line |-> LineOf(p), parts |-> p, multiplier |-> m] :
     p \in Lines, m \in Multipliers}
    \cup [fn : {"parseQuantityToken"}, token : ParseTexts]
    \cup [fn : {"formatQuantity"}, value : Values]
    \cup [fn : {"normalizeLines"}, value : LineValues]
    \cup {[fn |-> "stripLeadingStepNumber", line |-> n \o c, numbering |-> n, content |-> c] :
             n \in StepNumberings, c \in StepContents}
    \cup [fn : {"scaleServingsLabel"}, recipe : WebRecipes, quantities : {<<>>},
          multiplier : Multipliers]
    \cup {[fn |-> "scaleServingsLabel",
            recipe |-> [servings |-> JNull, servingsText |-> JStr(LabelOf(l))],
            quantities |-> l.qs, multiplier |-> m] :
             l \in LabelParts, m \in Multipliers}

WebInit ==
  /\ ServerInit
  /\ scrapeIn = [sourceUrl |-> PageUrl, response |-> NetworkError]
  /\ scrapeOut = IdleScrape
  /\ webIn \in WebInputs
  /\ webOut = IdleScrape
  /\ AppInit
  /\ AuthInit

ScaleLeadingQuantityCall ==
  /\ webIn.fn = "scaleLeadingQuantity" /\ webOut = IdleScrape
  /\ webOut' = Returned(scaleLeadingQuantity(webIn.line, webIn.multiplier))
  /\ UNCHANGED <<serverVars, scrapeVars, webIn, appVars, authVars>>

ParseQuantityTokenCall ==
  /\ webIn.fn = "parseQuantityToken" /\ webOut = IdleScrape
  /\ webOut' = Returned(parseQuantityToken(webIn.token))
  /\ UNCHANGED <<serverVars, scrapeVars, webIn, appVars, authVars>>

FormatQuantityCall ==
  /\ webIn.fn = "formatQuantity" /\ webOut = IdleScrape
  /\ webOut' = Returned(formatQuantity(webIn.value))
  /\ UNCHANGED <<serverVars, scrapeVars, webIn, appVars, authVars>>

ScaleServingsLabelCall ==
  /\ webIn.fn = "scaleServingsLabel" /\ webOut = IdleScrape
  /\ webOut' = Returned(scaleServingsLabel(webIn.recipe, webIn.multiplier))
  /\ UNCHANGED <<serverVars, scrapeVars, webIn, appVars, authVars>>

NormalizeLinesCall ==
  /\ webIn.fn = "normalizeLines" /\ webOut = IdleScrape
  /\ webOut' = Returned(normalizeLines(ValueOf(webIn.value)))
  /\ UNCHANGED <<serverVars, scrapeVars, webIn, appVars, authVars>>

StripLeadingStepNumberCall ==
  /\ webIn.fn = "stripLeadingStepNumber" /\ webOut = IdleScrape
  /\ webOut' = Returned(stripLeadingStepNumber(webIn.line))
  /\ UNCHANGED <<serverVars, scrapeVars, webIn, appVars, authVars>>

WebNext ==
  \/ NormalizeLinesCall
  \/ StripLeadingStepNumberCall
  \/ ScaleLeadingQuantityCall
  \/ ParseQuantityTokenCall
  \/ FormatQuantityCall
  \/ ScaleServingsLabelCall

WebSpec == WebInit /\ [][WebNext]_vars

Called(fn) == webIn.fn = fn /\ webOut.k = "ok"

(***************************************************************************)
(* Claims about scaleLeadingQuantity.                                      *)
(***************************************************************************)
\* The line begins, after optional whitespace, with a fraction glyph or with
\* a run of digits that Number() reads as a finite number.
BeginsWithQuantity(line) ==
  LET i == SkipSpaces(line, 1)
  IN /\ i <= Len(line)
     /\ \/ line[i] \in DOMAIN UNICODE_FRACTIONS
        \/ IsDigitRun(line[i]) /\ IsFiniteNumber(NumberOf(line[i]))

\* C15: scaleLeadingQuantity returns its input line token for token whenever
\* the multiplier is exactly 1, the multiplier is not finite, or the line does
\* not begin (after optional whitespace) with a parseable quantity.
C15_NoOpReturnsLine ==
  (/\ Called("scaleLeadingQuantity")
   /\ \/ webIn.multiplier = Rat(1, 1)
      \/ ~IsFiniteNumber(webIn.multiplier)
      \/ ~BeginsWithQuantity(webIn.line))
    => webOut.v = webIn.line

\* A range line at multiplier 1 comes back as it went in.
C15_Witness ==
  /\ Called("scaleLeadingQuantity")
  /\ webIn.multiplier = Rat(1, 1)
  /\ webIn.line = <<"1", "-", "2", " ", "eggs">>
  /\ webOut.v = webIn.line


\* The line begins with a range whose two quantities both parse, and the
\* multiplier is a finite number other than 1.
ScalesRange ==
  /\ Called("scaleLeadingQuantity")
  /\ IsFiniteNumber(webIn.multiplier) /\ webIn.multiplier # Rat(1, 1)
  /\ webIn.parts.join # <<>>
  /\ parseQuantityToken(webIn.parts.a) # JNull
  /\ parseQuantityToken(webIn.parts.b) # JNull

\* The range of the line with both quantities scaled, put back together with
\* the separator sep between single spaces and the given rest of the line.
ScaledRange(sep, suffix) ==
  Trim(CollapseSpaces(
    webIn.parts.prefix
      \o formatQuantity(Times(parseQuantityToken(webIn.parts.a), webIn.multiplier))
      \o <<" ">> \o sep \o <<" ">>
      \o formatQuantity(Times(parseQuantityToken(webIn.parts.b), webIn.multiplier))
      \o suffix))

\* C16 as stated: for a line that begins with a range 'a SEP b' where SEP is
\* '-', an en-dash or the word 'to', scaleLeadingQuantity with a multiplier
\* other than 1 scales a and b independently and puts them back together with
\* the separator '-', followed by the original suffix text.
C16_RangeRejoinedWithDash ==
  ScalesRange => webOut.v = ScaledRange(<<"-">>, webIn.parts.suffix)

\* What normalizeFractions leaves after the second quantity: the rest of the
\* line with each fraction glyph rewritten as n/d between spaces, after the
\* space that closes the second quantity when that quantity ends in a glyph.
NormalizedSuffix ==
  WebNormalizeFractions(
    (IF webIn.parts.b[Len(webIn.parts.b)] \in DOMAIN UNICODE_FRACTIONS THEN <<" ">> ELSE <<>>)
      \o webIn.parts.suffix)

\* C16, amended: the two scaled quantities are put back together with the
\* separator the line was written with (trimmed, between single spaces),
\* followed by the suffix with its fraction glyphs rewritten as n/d set off by
\* spaces and its runs of whitespace collapsed.
C16_RangeRejoinedWithOwnSeparator ==
  ScalesRange => webOut.v = ScaledRange(Trim(webIn.parts.join), NormalizedSuffix)

\* "1 to 2 eggs" at 2 gives "2 to 4 eggs".
C16_Witness ==
  /\ ScalesRange
  /\ webIn.multiplier = Rat(2, 1)
  /\ webIn.line = <<"1", " ", "to", " ", "2", " ", "eggs">>
  /\ webOut.v = <<"2", " ", "to", " ", "4", " ", "eggs">>


\* C17: scaleLeadingQuantity never partially mangles a line: given a line
\* that begins with a range, the output is either the original line unchanged
\* or the line with both quantities of the range scaled; it never drops the
\* second quantity while scaling the first.
C17_NeverPartiallyMangled ==
  (Called("scaleLeadingQuantity") /\ webIn.parts.join # <<>>) =>
    \/ webOut.v = webIn.line
    \/ ScalesRange /\ webOut.v = ScaledRange(Trim(webIn.parts.join), NormalizedSuffix)


(***************************************************************************)
(* Claims about parseQuantityToken.                                        *)
(***************************************************************************)
\* A fraction n/d (spaces allowed around the slash) written at token i of s:
\* the place of its denominator, or 0.
FractionWrittenAt(s, i) ==
  LET k == SkipSpaces(s, i + 1)
      l == SkipSpaces(s, k + 1)
  IN IF DigitRunAt(s, i) /\ k <= Len(s) /\ s[k] = "/" /\ DigitRunAt(s, l) THEN l ELSE 0

\* The number the text starts with once its glyphs are rewritten: a mixed
\* fraction first, then a simple fraction, then a decimal or an integer; null
\* when the text starts with none of them.
LeadingQuantity(token) ==
  LET s == Trim(WebNormalizeFractions(token))
      second == SkipSpaces(s, 2)
      mixedEnd == IF DigitRunAt(s, 1) /\ second > 2 THEN FractionWrittenAt(s, second) ELSE 0
      mixed == IF mixedEnd > 0
               THEN QuantityValue(NumberOf(s[1]), NumberOf(s[second]), NumberOf(s[mixedEnd]))
               ELSE JNull
      fracEnd == FractionWrittenAt(s, 1)
      frac == IF fracEnd > 0
              THEN QuantityValue(Rat(0, 1), NumberOf(s[1]), NumberOf(s[fracEnd]))
              ELSE JNull
  IN IF mixed # JNull THEN mixed
     ELSE IF frac # JNull THEN frac
     ELSE IF DigitRunAt(s, 1) /\ IsFiniteNumber(LeadingDecimal(s)) THEN LeadingDecimal(s)
     ELSE JNull

NearInteger ==
  WithinRoundingError(
    AbsDiff(webIn.value.v[1], MathRound(webIn.value.v[1], webIn.value.v[2]) * webIn.value.v[2]),
    webIn.value.v[2])

\* The nearest eighth of the value, counted in eighths.
NearestEighths == MathRound(8 * webIn.value.v[1], webIn.value.v[2])

\* The value lies within 0.02 of its nearest eighth.
NearEighth ==
  AbsDiff(8 * webIn.value.v[1], NearestEighths * webIn.value.v[2]) * 100
    < 2 * 8 * webIn.value.v[2]

\* text writes the nearest eighth as 'whole num/den', or as 'num/den' when the
\* whole part is 0: den is 2, 4 or 8, num is not 0 and num/den is reduced.
WritesNearestEighth(text) ==
  \E num \in 1..7, den \in {2, 4, 8} :
    /\ num < den /\ Gcd(num, den) = 1
    /\ 8 * (NearestEighths \div 8) + num * (8 \div den) = NearestEighths
    /\ text = IF NearestEighths \div 8 > 0
              THEN <<ToString(NearestEighths \div 8), " ", ToString(num), "/", ToString(den)>>
              ELSE <<ToString(num), "/", ToString(den)>>

\* The value as a decimal rounded to 2 places, trailing zeros trimmed.
WritesDecimal(text) ==
  text = TrimmedDecimal(MathRound(100 * webIn.value.v[1], webIn.value.v[2]))

FormatsFinite == Called("formatQuantity") /\ IsFiniteNumber(webIn.value)

\* C19 as stated: formatQuantity renders a value within 1e-9 of an integer as
\* that integer; otherwise, if the value is within 0.02 of its nearest eighth,
\* as 'whole num/den' or 'num/den' reduced by gcd (denominator 2, 4 or 8,
\* numerator not 0); otherwise as a decimal rounded to 2 places with trailing
\* zeros trimmed.
C19_IntegerFractionOrDecimal ==
  FormatsFinite =>
    IF NearInteger
    THEN webOut.v = <<ToString(MathRound(webIn.value.v[1], webIn.value.v[2]))>>
    ELSE IF NearEighth THEN WritesNearestEighth(webOut.v)
         ELSE WritesDecimal(webOut.v)

\* C19, amended: a value within 0.02 of its nearest eighth, that eighth being
\* a whole number, is rendered as that whole number; the other cases are as
\* stated.
C19_WholeEighthIsInteger ==
  FormatsFinite =>
    IF NearInteger
    THEN webOut.v = <<ToString(MathRound(webIn.value.v[1], webIn.value.v[2]))>>
    ELSE IF NearEighth
         THEN IF NearestEighths % 8 = 0
              THEN webOut.v = <<ToString(NearestEighths \div 8)>>
              ELSE WritesNearestEighth(webOut.v)
         ELSE WritesDecimal(webOut.v)

\* 0.99 is rendered "1", 1.5 being rendered "1 1/2" and 1/3 "0.33" elsewhere.
C19_Witness ==
  /\ FormatsFinite
  /\ webIn.value = Rat(99, 100)
  /\ ~NearInteger /\ NearEighth
  /\ webOut.v = <<"1">>


(***************************************************************************)
(* Claims about scaleServingsLabel.                                        *)
(***************************************************************************)
\* The recipe carries no servings text, or one of whitespace only.
NoServingsText ==
  webIn.recipe.servingsText.k # "string"
    \/ \A i \in 1..Len(webIn.recipe.servingsText.v) : IsSpace(webIn.recipe.servingsText.v[i])

\* C20: scaleServingsLabel returns null exactly when the recipe has neither a
\* finite servings number nor non-blank servings text, and when only the
\* numeric servings exists it returns "Serves " followed by
\* formatQuantity(servings * multiplier).
C20_ServingsLabel ==
  Called("scaleServingsLabel") =>
    /\ (webOut.v = JNull) <=> (~IsFiniteNumber(webIn.recipe.servings) /\ NoServingsText)
    /\ (IsFiniteNumber(webIn.recipe.servings) /\ NoServingsText) =>
         webOut.v = JStr(<<"Serves", " ">>
                           \o formatQuantity(Times(webIn.recipe.servings, webIn.multiplier)))

\* {servings: 4} at multiplier 2 gives "Serves 8".
C20_Witness ==
  /\ Called("scaleServingsLabel")
  /\ webIn.recipe = [servings |-> Rat(4, 1), servingsText |-> Undef]
  /\ webIn.multiplier = Rat(2, 1)
  /\ webOut.v = JStr(<<"Serves", " ", "8">>)


\* The digit runs, slashes and points of a text, in order.
NumberTokens(text) ==
  SelectSeq(text, LAMBDA tok : IsDigitRun(tok) \/ tok \in {"/", "."})

\* A quantity as scaleServingsLabel writes it when it scales it.
ScaledQuantity(q) ==
  NumberTokens(formatQuantity(Times(parseQuantityToken(q), webIn.multiplier)))

\* A quantity left as written, its glyph rewritten as n/d.
KeptQuantity(q) == NumberTokens(WebNormalizeFractions(q))

\* The numbers of the label when the quantities at places 1 and 2 are scaled
\* and the later ones are kept.
RECURSIVE FirstTwoPlacesScaled(_, _)
FirstTwoPlacesScaled(qs, place) ==
  IF qs = <<>> THEN <<>>
  ELSE (IF place <= 2 /\ parseQuantityToken(Head(qs)) # JNull
        THEN ScaledQuantity(Head(qs)) ELSE KeptQuantity(Head(qs)))
         \o FirstTwoPlacesScaled(Tail(qs), place + 1)

\* The numbers of the label when the first two quantities that parse are
\* scaled, count of them being scaled so far, and the others are kept.
RECURSIVE FirstTwoParsedScaled(_, _)
FirstTwoParsedScaled(qs, count) ==
  IF qs = <<>> THEN <<>>
  ELSE IF count < 2 /\ parseQuantityToken(Head(qs)) # JNull
       THEN ScaledQuantity(Head(qs)) \o FirstTwoParsedScaled(Tail(qs), count + 1)
       ELSE KeptQuantity(Head(qs)) \o FirstTwoParsedScaled(Tail(qs), count)

ScalesLabelText == Called("scaleServingsLabel") /\ webIn.quantities # <<>>

\* C21 as stated: when servings text exists, scaleServingsLabel scales exactly
\* the first two quantity occurrences in it (all of them when there are fewer
\* than two) and leaves every further number in the text unchanged.
C21_FirstTwoOccurrencesScaled ==
  ScalesLabelText =>
    /\ webOut.v.k = "string"
    /\ NumberTokens(webOut.v.v) = FirstTwoPlacesScaled(webIn.quantities, 1)

\* C21, amended: the quantities scaled are the first two occurrences that
\* parse to a finite number; an occurrence that does not parse is left as
\* written and is not counted, and every number after the two scaled ones is
\* left unchanged.
C21_FirstTwoParsedScaled ==
  ScalesLabelText =>
    /\ webOut.v.k = "string"
    /\ NumberTokens(webOut.v.v) = FirstTwoParsedScaled(webIn.quantities, 0)

\* "4-6-4 servings" at 2 gives "Serves 8-12-4".
C21_Witness ==
  /\ ScalesLabelText
  /\ webIn.quantities = <<(<<"4">>), (<<"6">>), (<<"4">>)>>
  /\ webIn.recipe.servingsText = JStr(<<"4", "-", "6", "-", "4", " ", "servings">>)
  /\ webIn.multiplier = Rat(2, 1)
  /\ webOut.v = JStr(<<"Serves", " ", "8", "-", "12", "-", "4">>)


(***************************************************************************)
(* Claims about normalizeLines and stripLeadingStepNumber.                 *)
(***************************************************************************)
\* The lines of a value: of a text, its pieces between line endings (\r\n,
\* \n or \r); of a collection, the strings of its elements; each trimmed, the
\* empty ones dropped, the order kept. An absent or null value has none.
LinesOf(value) ==
  IF value.k \in {"undefined", "null"} THEN <<>>
  ELSE IF value.k = "array"
       THEN TrimmedNonEmpty([i \in 1..Len(value.v) |-> StringOf(value.v[i])])
       ELSE IF value.k = "string"
            THEN TrimmedNonEmpty(SplitAt(value.v, {"\n", "\r"}, <<>>))
            ELSE webOut.v

\* C22: normalizeLines does not throw and, for any input (absent, null, a
\* text with any line endings, or a collection of arbitrary elements), returns
\* the input's lines in their original order, each trimmed and the empty ones
\* dropped; no returned element is empty or has leading or trailing
\* whitespace.
C22_LinesTrimmedInOrder ==
  Called("normalizeLines") =>
    /\ webOut.v = LinesOf(ValueOf(webIn.value))
    /\ \A i \in 1..Len(webOut.v) : webOut.v[i] # <<>> /\ Trim(webOut.v[i]) = webOut.v[i]


\* C23: stripLeadingStepNumber removes one leading step number (an optional
\* 'step', digits, one separator among ')', '.', ':', '-') and leaves the
\* instruction's own content as it is: a numbered line comes back as its
\* content, a line that is not numbered comes back unchanged.
C23_ContentIsKept ==
  Called("stripLeadingStepNumber") => webOut.v = Trim(webIn.content)


(***************************************************************************)
(* The App component of the web client (src/unnamed/part_001): its         *)
(* multipliers, the card clicked and the detail record shown.              *)
(***************************************************************************)
ListedIds == 1..MaxRecipes

\* Number(e.target.value): a number of hundredths, or not a finite number.
TypedNumbers ==
  {[finite |-> FALSE, hundredths |-> 0]}
    \cup [finite : {TRUE}, hundredths : {-300, 0, 5, 10, 100, 250, 1000, 1100}]

Min(a, b) == IF a <= b THEN a ELSE b
Max(a, b) == IF a >= b THEN a ELSE b

\* The typed number taken as it is.
Unclamped(hundredths) == hundredths

\* Math.min(10, Math.max(0.1, next)), in hundredths.
Clamped(hundredths) == Min(1000, Max(10, hundredths))

\* multiplierByRecipeId[recipe.id] ?? 1
MultiplierOf(id) ==
  IF id \in DOMAIN multiplierByRecipeId THEN multiplierByRecipeId[id] ELSE Rat(1, 1)

\* onChange of the multiplier input of a recipe.
MultiplierChange(id, next) ==
  /\ next.finite
  /\ multiplierByRecipeId' =
       [i \in DOMAIN multiplierByRecipeId \cup {id} |->
          IF i = id THEN Rat(Clamped(next.hundredths), 100)
          ELSE multiplierByRecipeId[i]]
  /\ UNCHANGED <<serverVars, scrapeVars, authVars, webIn, webOut, selectedId, selected, loads, busy>>

\* onChange with a text that is not a finite number: the handler returns.
MultiplierRejected(id, next) ==
  /\ ~next.finite
  /\ UNCHANGED vars

MultiplierNext ==
  \/ \E id \in ListedIds, next \in TypedNumbers : MultiplierChange(id, next)
  \/ \E id \in ListedIds, next \in TypedNumbers : MultiplierRejected(id, next)

MultiplierSpec == Init /\ [][MultiplierNext]_vars

\* A finite number in [0.1, 10].
InMultiplierRange(m) ==
  IsFiniteNumber(m) /\ 10 * m.v[1] >= m.v[2] /\ m.v[1] <= 10 * m.v[2]

\* C24: after any sequence of multiplier input events the multiplier used for
\* each recipe is a finite number in [0.1, 10]; it is 1 at the start and
\* changes only by an edit of that recipe's own multiplier, so it is 1 for a
\* recipe never edited and an edit changes no other recipe's multiplier; and
\* an edit changes no stored record.
C24_MultiplierClampedPerRecipe ==
  /\ \A id \in ListedIds : MultiplierOf(id) = Rat(1, 1)
  /\ [](\A id \in ListedIds : InMultiplierRange(MultiplierOf(id)))
  /\ [][/\ \A id \in ListedIds :
            MultiplierOf(id)' # MultiplierOf(id) =>
              \E next \in TypedNumbers : MultiplierChange(id, next)
         /\ recipes' = recipes]_vars

\* Recipe 1 set to 10 by typing 11, recipe 2 set to 0.1 by typing 0, recipe 3
\* never edited.
C24_Witness ==
  /\ DOMAIN multiplierByRecipeId = {1, 2}
  /\ MultiplierOf(1) = Rat(10, 1)
  /\ MultiplierOf(2) = Rat(1, 10)
  /\ MultiplierOf(3) = Rat(1, 1)


\* onClick of a recipe card: setSelectedId(r.id); the selected-load effect
\* then cancels the load it started before and starts getRecipe(id).
CardClick(id) ==
  /\ id # selectedId
  /\ selectedId' = id
  /\ loads' = {[l EXCEPT !.cancelled = TRUE] : l \in loads}
                \cup {[id |-> id, cancelled |-> FALSE]}
  /\ UNCHANGED <<serverVars, scrapeVars, authVars, webIn, webOut, multiplierByRecipeId, selected, busy>>

\* getRecipe(id) answers: if (!cancelled) setSelected(r).
LoadResolves(l) ==
  /\ l \in loads
  /\ loads' = loads \ {l}
  /\ selected' = IF l.cancelled THEN selected ELSE l.id
  /\ UNCHANGED <<serverVars, scrapeVars, authVars, webIn, webOut, multiplierByRecipeId, selectedId, busy>>

\* getRecipe(id) fails: setError.
LoadRejects(l) ==
  /\ l \in loads
  /\ loads' = loads \ {l}
  /\ UNCHANGED <<serverVars, scrapeVars, authVars, webIn, webOut, multiplierByRecipeId, selectedId,
                 selected, busy>>

\* onRescrape up to its request: rescrapeRecipe(selectedId).
RescrapeClick ==
  /\ busy = NotBusy /\ selectedId # 0
  /\ busy' = [op |-> "rescrape", id |-> selectedId, pc |-> "request"]
  /\ UNCHANGED <<serverVars, scrapeVars, authVars, webIn, webOut, multiplierByRecipeId, selectedId,
                 selected, loads>>

\* onSaveEdits up to its request: updateRecipe(selectedId, ...). The Save
\* button is part of the panel of the detail record shown.
SaveClick ==
  /\ busy = NotBusy /\ selectedId # 0 /\ selected # 0
  /\ busy' = [op |-> "save", id |-> selectedId, pc |-> "request"]
  /\ UNCHANGED <<serverVars, scrapeVars, authVars, webIn, webOut, multiplierByRecipeId, selectedId,
                 selected, loads>>

\* The response to the re-scrape or the save: setSelected(updated), then
\* refreshList().
MutationResolves ==
  /\ busy.pc = "request"
  /\ selected' = busy.id
  /\ busy' = [busy EXCEPT !.pc = "refresh"]
  /\ UNCHANGED <<serverVars, scrapeVars, authVars, webIn, webOut, multiplierByRecipeId, selectedId, loads>>

\* The request fails: setError, setBusy(false).
MutationRejects ==
  /\ busy.pc = "request"
  /\ busy' = NotBusy
  /\ UNCHANGED <<serverVars, scrapeVars, authVars, webIn, webOut, multiplierByRecipeId, selectedId,
                 selected, loads>>

\* refreshList() ends, the list still holding every recipe: setBusy(false).
RefreshEnds ==
  /\ busy.pc = "refresh"
  /\ busy' = NotBusy
  /\ UNCHANGED <<serverVars, scrapeVars, authVars, webIn, webOut, multiplierByRecipeId, selectedId,
                 selected, loads>>

SelectionNext ==
  \/ \E id \in ListedIds : CardClick(id)
  \/ \E l \in loads : LoadResolves(l)
  \/ \E l \in loads : LoadRejects(l)
  \/ RescrapeClick
  \/ SaveClick
  \/ MutationResolves
  \/ MutationRejects
  \/ RefreshEnds

SelectionSpec == Init /\ [][SelectionNext]_vars

\* C29: whenever no request is in flight, the detail record shown is null or
\* has the id of the card selected; a response for a recipe that is no longer
\* selected does not replace the detail record shown.
C29_ShownRecordIsSelected ==
  (loads = {} /\ busy = NotBusy) => (selected = 0 \/ selected = selectedId)


\* The line begins with a quantity above 0.
PositiveLeadingQuantity ==
  /\ parseQuantityToken(webIn.parts.a) # JNull
  /\ parseQuantityToken(webIn.parts.a).v[1] > 0

\* The text begins with the quantity "0": a 0 that no decimal point follows.
BeginsWithZero(text) ==
  /\ text # <<>> /\ text[1] = "0"
  /\ ~(Len(text) >= 2 /\ text[2] = ".")

\* C30: for every line with a positive leading quantity and every multiplier
\* in [0.1, 10], the quantity scaleLeadingQuantity renders is not "0", and
\* formatQuantity renders no positive value as "0".
C30_PositiveNeverRenderedZero ==
  /\ (/\ Called("scaleLeadingQuantity")
      /\ InMultiplierRange(webIn.multiplier)
      /\ PositiveLeadingQuantity)
       => ~BeginsWithZero(webOut.v)
  /\ (Called("formatQuantity") /\ IsFiniteNumber(webIn.value) /\ webIn.value.v[1] > 0)
       => webOut.v # <<"0">>


(***************************************************************************)
(* scrapeError against scrapeStatus (recipes.ts 56-95, 177-209)            *)
(***************************************************************************)
\* C26: in every reachable state, under any interleaving of creation,
\* extraction completions, re-scrapes and edits, the scrapeError of a record
\* is non-null if and only if its scrapeStatus is error.
C26_ErrorIffStatusError ==
  \A id \in DOMAIN recipes :
    (recipes[id].scrapeError # JNull) <=> (StatusOf(recipes, id) = "error")

\* A record whose extraction failed after the user edited its notes: it is in
\* error and carries the message.
C26_Witness ==
  \E id \in DOMAIN recipes :
    /\ StatusOf(recipes, id) = "error"
    /\ recipes[id].scrapeError.k = "string"
    /\ recipes[id].notes # JNull


(***************************************************************************)
(* What a successful extraction leaves alone (recipes.ts 69-83, 183-197)   *)
(***************************************************************************)
ExtractionFields == {"description", "imageUrl", "ingredients", "instructions"}

\* The update after a scrape that returned `scraped` is applied to record id
\* in this step: a field the result lacks keeps its value, and no stored
\* field becomes null.
KeepsMissingFields(id, scraped) ==
  \A f \in ExtractionFields :
    /\ scraped[f].k \in {"undefined", "null"} => recipes'[id][f] = recipes[id][f]
    /\ recipes[id][f] # JNull => recipes'[id][f] # JNull

\* C27: a successful extraction, initial or re-scrape, never clears a stored
\* extraction field: for each of description, imageUrl, ingredients and
\* instructions the scrape result lacks, the record keeps its value.
C27_SuccessKeepsMissingFields ==
  [][/\ \A id \in DOMAIN tasks :
          (tasks[id].pc = "update" /\ tasks'[id].pc = "done")
            => KeepsMissingFields(id, tasks[id].scraped.v)
     /\ \A r \in DOMAIN reqs :
          (reqs[r].op = "rescrape" /\ reqs[r].pc = "update" /\ reqs'[r] = IdleReq)
            => KeepsMissingFields(reqs[r].id, reqs[r].scraped.v)]_vars

\* A record in status ok whose image comes from the latest scrape (the page
\* without a recipe node) and whose description, ingredients and
\* instructions come from an earlier one.
C27_Witness ==
  \E id \in DOMAIN recipes :
    /\ StatusOf(recipes, id) = "ok"
    /\ recipes[id].imageUrl = ParseRecipePage(recipes[id].sourceUrl.v, BarePage).imageUrl
    /\ recipes[id].imageUrl # JNull
    /\ recipes[id].description # JNull
    /\ recipes[id].ingredients # JNull
    /\ recipes[id].instructions # JNull


(***************************************************************************)
(* notes and tags against the extractions (recipes.ts 66-95, 118-141,      *)
(* 182-209)                                                                *)
(***************************************************************************)
\* The PUT of record id is answered 200 in this step.
EditedNow(id) ==
  Received /\ answered'.op = "put" /\ answered'.id = id /\ answered'.resp.status = 200

\* C28: no extraction completion (initial or re-scrape, success or failure)
\* changes the notes or the tags of a record: under any interleaving they
\* change only in the step of a PUT of that record, so they always are what
\* the last edit left.
C28_OnlyEditsChangeNotesAndTags ==
  [][\A id \in DOMAIN recipes \cap DOMAIN recipes' :
       \/ recipes'[id].notes = recipes[id].notes /\ recipes'[id].tags = recipes[id].tags
       \/ EditedNow(id)]_vars

\* The last answer is the one of a re-scrape, and the record it extracted
\* still holds the notes and tags of the edit made before.
C28_Witness ==
  /\ answered.op = "rescrape" /\ answered.resp.status = 200
  /\ answered.id \in DOMAIN recipes
  /\ recipes[answered.id].lastScrapedAt # JNull
  /\ recipes[answered.id].notes = JStr(<<"tasty">>)
  /\ recipes[answered.id].tags # JNull


(***************************************************************************)
(* The session gate of the authenticated variant: auth.ts,                 *)
(* attachSessionUser, requireAuth and the createApp that mounts them       *)
(* before the /recipes router.  A token is the sequence of the segments    *)
(* between its dots; times are in seconds.                                 *)
(***************************************************************************)
MaxTicks == 2
MaxRouted == 2

\* SESSION_TTL_SECONDS = 60 * 60 * 24 * 30 (auth.ts 9).
SESSION_TTL_SECONDS == 2592000

\* A segment: a run of digits, a run of digits followed by other characters,
\* a text Number.parseInt reads no number from, or the empty text.
Digits(n) == [k |-> "digits", v |-> <<n>>]
DigitsThenJunk(n) == [k |-> "digits_junk", v |-> <<n>>]
JunkSegment == [k |-> "junk", v |-> <<>>]
EmptySegment == [k |-> "empty", v |-> <<>>]

\* sign (auth.ts 12-14) of the payload userId.expiresAt: the HMAC under
\* SESSION_SECRET, a text without dots that differs for different payloads.
sign(userId, expiresAt) == [k |-> "hmac", v |-> <<userId, expiresAt>>]

\* Number.isInteger(Number.parseInt(raw, 10)), and the integer read.
ParsesInteger(raw) == raw.k \in {"digits", "digits_junk"}
ParseInt(raw) == raw.v[1]

\* createSessionToken (auth.ts 50-56).
createSessionToken(userId, now) ==
  LET expiresAt == now + SESSION_TTL_SECONDS
  IN <<Digits(userId), Digits(expiresAt), sign(userId, expiresAt)>>

NoSession == [k |-> "null", userId |-> 0]
Session(userId) == [k |-> "object", userId |-> userId]

\* token.split('.')[i - 1]: undefined is falsy as the empty text is.
Segment(token, i) == IF i <= Len(token) THEN token[i] ELSE EmptySegment

\* parseSessionToken accepting a token until the second after its expiry is
\* one TTL old.
parseSessionTokenLate(token, now) ==
  LET userIdRaw == Segment(token, 1)
      expiresAtRaw == Segment(token, 2)
      signature == Segment(token, 3)
  IN IF EmptySegment \in {userIdRaw, expiresAtRaw, signature} THEN NoSession
     ELSE IF \/ ~ParsesInteger(userIdRaw) \/ ParseInt(userIdRaw) < 1
             \/ ~ParsesInteger(expiresAtRaw)
             \/ ParseInt(expiresAtRaw) + SESSION_TTL_SECONDS < now
          THEN NoSession
          ELSE IF signature # sign(ParseInt(userIdRaw), ParseInt(expiresAtRaw))
               THEN NoSession
               ELSE Session(ParseInt(userIdRaw))

\* parseSessionToken (auth.ts 58-79).
parseSessionToken(token, now) ==
  LET userIdRaw == Segment(token, 1)
      expiresAtRaw == Segment(token, 2)
      signature == Segment(token, 3)
  IN IF EmptySegment \in {userIdRaw, expiresAtRaw, signature} THEN NoSession
     ELSE IF \/ ~ParsesInteger(userIdRaw) \/ ParseInt(userIdRaw) < 1
             \/ ~ParsesInteger(expiresAtRaw) \/ ParseInt(expiresAtRaw) < now
          THEN NoSession
          ELSE IF signature # sign(ParseInt(userIdRaw), ParseInt(expiresAtRaw))
               THEN NoSession
               ELSE Session(ParseInt(userIdRaw))

\* sessionFromRequest (auth.ts 133-142); rawToken is the value of the
\* mr_session cookie, <<>> when the request has none.
sessionFromRequest(rawToken, now) ==
  IF rawToken = <<>> THEN NoSession ELSE parseSessionToken(rawToken, now)


\* The tokens a request can carry at the time now: none, a token a login
\* of user 1 was given, a token signed for an account that does not exist,
\* and what a client makes of a token by forging, cutting or padding it.
IssueTimes == {i * SESSION_TTL_SECONDS : i \in 0..MaxTicks}

TokensFrom(t) ==
  LET issued == createSessionToken(1, t)
  IN {issued,
      createSessionToken(2, t),
      <<Digits(0), issued[2], sign(0, ParseInt(issued[2]))>>,
      <<Digits(2), issued[2], issued[3]>>,
      <<issued[1], Digits(ParseInt(issued[2]) + SESSION_TTL_SECONDS), issued[3]>>,
      <<issued[1], issued[2], JunkSegment>>,
      <<JunkSegment, issued[2], issued[3]>>,
      <<issued[1], issued[2]>>,
      <<DigitsThenJunk(1), issued[2], issued[3], JunkSegment>>}

Tokens(now) == {<<>>} \cup UNION {TokensFrom(t) : t \in {u \in IssueTimes : u <= now}}

NodeEnvs == {"production", "test"}

\* attachSessionUser has run and requireAuth is next, with req.userId set
\* (0: undefined).
Attached(token, userId) ==
  [NoGate EXCEPT !.pc = "auth", !.token = token, !.at = dateNow, !.userId = userId]

\* The gate takes the next request once it has answered the one before or
\* handed it to its handler.
GateFree ==
  \/ gate.pc \in {"idle", "answered"}
  \/ gate.pc = "next" /\ started # gate.started

\* attachSessionUser (session-user 17-26): in the test environment every
\* request is user 1; otherwise the session is read from the cookie, and
\* without a session next() is called with no req.userId.
AttachSessionUser(token) ==
  /\ GateFree
  /\ gate' = IF nodeEnv = "test" THEN Attached(token, 1)
             ELSE LET session == sessionFromRequest(token, dateNow)
                  IN IF session = NoSession THEN Attached(token, 0)
                     ELSE [Attached(token, 0) EXCEPT !.pc = "lookup",
                                                     !.session = session.userId]
  /\ UNCHANGED <<serverVars, scrapeVars, webIn, webOut, appVars, nodeEnv, users, dateNow>>

\* Lines 27-38: prisma.user.findUnique answers; req.userId is set when the
\* user exists.
UserLookup ==
  /\ gate.pc = "lookup"
  /\ gate' = [gate EXCEPT !.pc = "auth",
                          !.userId = IF gate.session \in users THEN gate.session ELSE 0]
  /\ UNCHANGED <<serverVars, scrapeVars, webIn, webOut, appVars, nodeEnv, users, dateNow>>

\* Line 39: prisma.user.findUnique rejects; next(err) ends in errorHandler.
UserLookupFails ==
  /\ gate.pc = "lookup"
  /\ gate' = [NoGate EXCEPT !.pc = "answered", !.status = 500]
  /\ UNCHANGED <<serverVars, scrapeVars, webIn, webOut, appVars, nodeEnv, users, dateNow>>

\* requireAuth (require-auth 5-12): 401 'Please sign in' without req.userId, else next(), which
\* enters the /recipes router; the first step of the handler follows.
RequireAuth ==
  /\ gate.pc = "auth"
  /\ gate' = IF gate.userId # 0
             THEN [NoGate EXCEPT !.pc = "next", !.started = started]
             ELSE [NoGate EXCEPT !.pc = "answered", !.status = 401]
  /\ UNCHANGED <<serverVars, scrapeVars, webIn, webOut, appVars, nodeEnv, users, dateNow>>

\* The router has the request requireAuth passed on.
Routed == gate.pc = "next" /\ gate.started = started /\ started < MaxRouted

\* Time passes.
Tick ==
  /\ dateNow < MaxTicks * SESSION_TTL_SECONDS
  /\ dateNow' = dateNow + SESSION_TTL_SECONDS
  /\ UNCHANGED <<serverVars, scrapeVars, webIn, webOut, appVars, nodeEnv, users, gate>>

\* The row of a user is deleted from the User table.
UserRemoved(u) ==
  /\ u \in users
  /\ users' = users \ {u}
  /\ UNCHANGED <<serverVars, scrapeVars, webIn, webOut, appVars, nodeEnv, dateNow, gate>>

AuthSpecInit ==
  /\ ServerInit
  /\ scrapeIn = [sourceUrl |-> PageUrl, response |-> NetworkError]
  /\ scrapeOut = IdleScrape
  /\ webIn = NoCall /\ webOut = IdleScrape
  /\ AppInit
  /\ nodeEnv \in NodeEnvs
  /\ users = {1}
  /\ dateNow = 0
  /\ gate = NoGate

AuthNext ==
  \/ \E token \in Tokens(dateNow) : AttachSessionUser(token)
  \/ UserLookup
  \/ UserLookupFails
  \/ RequireAuth
  \/ Tick
  \/ \E u \in users : UserRemoved(u)
  \/ \E r \in Slots, body \in CreateBodies : Routed /\ CreateSubmit(r, body)
  \/ \E r \in Slots : CreateInsert(r)
  \/ \E id \in DOMAIN tasks : TaskSettles(id)
  \/ \E id \in DOMAIN tasks : TaskUpdate(id)
  \/ \E id \in DOMAIN tasks : TaskCatch(id)
  \/ \E r \in Slots, param \in IdParams : Routed /\ RescrapeStart(r, param)
  \/ \E r \in Slots : RescrapeMarkPending(r)
  \/ \E r \in Slots : RescrapeSettles(r)
  \/ \E r \in Slots : RescrapeUpdate(r)
  \/ \E r \in Slots : RescrapeCatch(r)
  \/ \E r \in Slots, param \in IdParams, patch \in Patches : Routed /\ PutUpdate(r, param, patch)
  \/ \E r \in Slots, param \in IdParams : Routed /\ Delete(r, param)

AuthSpec == AuthSpecInit /\ [][AuthNext]_vars


\* The signature of the token verifies: its third segment is the signature
\* of the user id and the expiry its first two segments read as.
SignatureVerifies(token) ==
  /\ Len(token) >= 3
  /\ ParsesInteger(token[1]) /\ ParsesInteger(token[2])
  /\ token[3] = sign(ParseInt(token[1]), ParseInt(token[2]))

\* The request at the gate carries a token whose signature verifies and
\* whose expiry had not passed when the gate read it.
CarriesSession ==
  SignatureVerifies(gate.token) /\ ParseInt(gate.token[2]) >= gate.at

\* requireAuth passes the request at the gate on to the /recipes router, or
\* the gate answers it itself, in this step.
PassedOn == gate.pc = "auth" /\ gate'.pc = "next"
TurnedAway == gate.pc \in {"lookup", "auth"} /\ gate'.pc = "answered"

\* The user lookup of attachSessionUser finds the user in this step.
UserFound == gate.pc = "lookup" /\ gate'.pc = "auth" /\ gate'.userId # 0

\* C25 as stated: a request reaches the recipe handlers only if it carries a
\* session token whose signature verifies, whose expiry has not passed and
\* whose user still exists; every other request is answered 401 and reads,
\* writes and extracts nothing.
C25_OnlySessionsReachHandlers ==
  [][/\ Received => Routed
     /\ PassedOn => CarriesSession /\ gate.userId = ParseInt(gate.token[1])
     /\ UserFound => gate'.userId = ParseInt(gate.token[1]) /\ gate'.userId \in users
     /\ TurnedAway => gate'.status = 401 /\ UNCHANGED serverVars]_vars

\* C25, amended: outside the test environment a request reaches the recipe
\* handlers only if it carries a session token whose signature verifies,
\* whose expiry has not passed and whose user exists at the lookup; any
\* other request is answered 401, or 500 when the user lookup itself
\* fails, and reads, writes and extracts nothing.  With NODE_ENV=test every
\* request passes as user 1, whatever it carries.
C25_OnlySessionsReachHandlersOutsideTest ==
  [][/\ Received => Routed
     /\ PassedOn =>
          IF nodeEnv = "test" THEN gate.userId = 1
          ELSE CarriesSession /\ gate.userId = ParseInt(gate.token[1])
     /\ UserFound => gate'.userId = ParseInt(gate.token[1]) /\ gate'.userId \in users
     /\ TurnedAway =>
          /\ nodeEnv # "test"
          /\ UNCHANGED serverVars
          /\ IF gate.pc = "lookup" THEN gate'.status = 500
             ELSE gate'.status = 401 /\ gate.userId = 0]_vars

\* In production a record is stored, the user has been deleted, and a
\* request whose token verifies and has not expired stands before
\* requireAuth with no req.userId.
C25_Witness ==
  /\ nodeEnv = "production"
  /\ gate.pc = "auth" /\ gate.userId = 0
  /\ CarriesSession
  /\ DOMAIN recipes # {}

=============================================================================
